---- MODULE Spec2Model ----
(***************************************************************************)
(* Model of konnect's identifier: the HTTP handlers of                     *)
(* identifier/handlers.go (secureHandler, handleLogon, handleLogoff,       *)
(* handleConsent, handleHello, newHelloResponse) and the LDAP backend of   *)
(* identifier/backends/ldap.go (Logon, searchUsername, entryIDFromEntry).  *)
(*                                                                         *)
(* Header values that the code parses (Origin, Referer, Host) and every    *)
(* string of the LDAP backend are sequences of one-character strings, so   *)
(* that parsing, case folding and escaping are computed character by       *)
(* character.  Strings the handlers only compare or test for emptiness     *)
(* (user names, passwords, state) are TLA+ strings.                        *)
(***************************************************************************)
EXTENDS Integers, Sequences, FiniteSets, TLC

VARIABLES
    phase,      \* position of the request in flight: "idle" | "done"
    cookieJar,  \* the browser's sealed logon cookie
    consentJar, \* the browser's sealed consent cookie
    req,        \* the request being served
    resp,       \* what the handler wrote to the http.ResponseWriter
    eff,        \* calls the handler made to its collaborators
    backend,    \* the LDAPIdentifierBackend, as constructed
    directory,  \* the entries held by the directory server
    ldapReq,    \* the backend call being served
    ldapRes,    \* what the call returned
    issued,     \* the last successful Logon: its arguments and subject
    calls,      \* the backend calls in progress, step by step
    limiter     \* the backend's rate limiter: tokens held and granted

httpVars == <<cookieJar, consentJar, req, resp, eff>>
connVars == <<calls, limiter>>
ldapVars == <<backend, directory, ldapReq, ldapRes, issued, calls, limiter>>
vars == <<phase, cookieJar, consentJar, req, resp, eff,
          backend, directory, ldapReq, ldapRes, issued, calls, limiter>>

None == "<nil>"

----------------------------------------------------------------------------
(* Strings as character sequences.                                         *)

\* strings.Index: the first position of c in s, 0 when absent.
Index(s, c) ==
    IF \E i \in 1..Len(s) : s[i] = c
    THEN CHOOSE i \in 1..Len(s) : s[i] = c /\ \A j \in 1..(i - 1) : s[j] # c
    ELSE 0

\* strings.LastIndex
LastIndex(s, c) ==
    IF \E i \in 1..Len(s) : s[i] = c
    THEN CHOOSE i \in 1..Len(s) : s[i] = c /\ \A j \in (i + 1)..Len(s) : s[j] # c
    ELSE 0

\* strings.HasPrefix
HasPrefix(s, p) == Len(s) >= Len(p) /\ SubSeq(s, 1, Len(p)) = p

\* The part of s before its first c (all of s when c is absent).
CutBefore(s, c) == IF Index(s, c) = 0 THEN s ELSE SubSeq(s, 1, Index(s, c) - 1)

\* The part of s from its first c on (empty when c is absent).
CutFrom(s, c) == IF Index(s, c) = 0 THEN <<>> ELSE SubSeq(s, Index(s, c), Len(s))

Letters == {"h", "x", "y", "u", "p", "H", "X"}
SchemeMarks == {"0", "8", "+", "-", "."}

----------------------------------------------------------------------------
(* net/url.Parse, as far as secureHandler depends on it: the error result  *)
(* and the Host field.                                                     *)

\* url.getscheme: scheme and rest, or the error "missing protocol scheme".
RECURSIVE getschemeFrom(_, _)
getschemeFrom(rawurl, i) ==
    IF i > Len(rawurl) THEN [err |-> FALSE, scheme |-> <<>>, rest |-> rawurl]
    ELSE IF rawurl[i] \in Letters THEN getschemeFrom(rawurl, i + 1)
    ELSE IF rawurl[i] \in SchemeMarks
         THEN IF i = 1 THEN [err |-> FALSE, scheme |-> <<>>, rest |-> rawurl]
              ELSE getschemeFrom(rawurl, i + 1)
    ELSE IF rawurl[i] = ":"
         THEN IF i = 1 THEN [err |-> TRUE, scheme |-> <<>>, rest |-> <<>>]
              ELSE [err |-> FALSE, scheme |-> SubSeq(rawurl, 1, i - 1),
                    rest |-> SubSeq(rawurl, i + 1, Len(rawurl))]
    ELSE [err |-> FALSE, scheme |-> <<>>, rest |-> rawurl]

getscheme(rawurl) == getschemeFrom(rawurl, 1)

\* url.unescape's error: a "%" that no two hex digits follow.  No character
\* of the model's alphabet is a hex digit, so every "%" is a bad escape.
badEscape(s) == Index(s, "%") # 0

\* url.parseAuthority: the host is what follows the last "@".
parseAuthority(authority) ==
    LET i == LastIndex(authority, "@")
        host == SubSeq(authority, i + 1, Len(authority))
    IN  [err |-> badEscape(host), Host |-> host]

\* url.Parse (url.parse with viaRequest = false).
urlParse(rawurl) ==
    LET u == CutBefore(rawurl, "#")
        gs == getscheme(u)
        rest == CutBefore(gs.rest, "?")
        rootless == ~HasPrefix(rest, <<"/">>)
        colon == Index(rest, ":")
        slash == Index(rest, "/")
    IN  IF gs.err THEN [err |-> TRUE, Host |-> <<>>]
        ELSE IF rootless /\ gs.scheme # <<>>
             THEN [err |-> FALSE, Host |-> <<>>]            \* opaque
        ELSE IF rootless /\ colon > 0 /\ (slash = 0 \/ colon < slash)
             THEN [err |-> TRUE, Host |-> <<>>]
        ELSE IF (gs.scheme # <<>> \/ ~HasPrefix(rest, <<"/", "/", "/">>))
                /\ HasPrefix(rest, <<"/", "/">>)
             THEN LET after == SubSeq(rest, 3, Len(rest))
                      auth == parseAuthority(CutBefore(after, "/"))
                  IN  IF auth.err \/ badEscape(CutFrom(after, "/"))
                      THEN [err |-> TRUE, Host |-> <<>>]
                      ELSE [err |-> FALSE, Host |-> auth.Host]
        ELSE [err |-> badEscape(rest), Host |-> <<>>]

----------------------------------------------------------------------------
(* secureHandler                                                           *)

StatusOK == 200
StatusNoContent == 204
StatusBadRequest == 400
StatusInternalServerError == 500

\* Faulty variant of originRejects: only an unparsable Origin is refused,
\* one that names another host is let through.
originRejectsLax(origin, referer, requiredHost) ==
    /\ origin # <<>>
    /\ urlParse(origin).err

\* Lines 78-87: the Origin branch breaks out of the loop with an error.
originRejects(origin, referer, requiredHost) ==
    /\ origin # <<>>
    /\ \/ urlParse(origin).err
       \/ urlParse(origin).Host # requiredHost

\* Lines 88-97: the Referer branch, taken only without an Origin.
refererRejects(origin, referer, requiredHost) ==
    /\ origin = <<>>
    /\ referer # <<>>
    /\ \/ urlParse(referer).err
       \/ urlParse(referer).Host # requiredHost

\* Faulty variant of xsrfMissing: any non-empty value of the header passes.
xsrfMissingPresence(xsrf) == xsrf = ""

\* Line 61: req.Header.Get("Kopano-Konnect-XSRF") != "1"
xsrfMissing(xsrf) == xsrf # "1"

\* Faulty variant of bothMissing: without Origin and Referer the loop goes
\* on to the warning of line 99 and the wrapped handler.
bothMissingIgnored(origin, referer) == FALSE

\* Line 73: origin == "" && referer == ""
bothMissing(origin, referer) == origin = <<>> /\ referer = <<>>

\* The loop of lines 60-107 and the rejection of lines 109-118: whether the
\* wrapped handler is invoked, the warning of line 99, the error logged.
secureHandler(xsrf, origin, referer, host) ==
    LET requiredHost == host
        err == IF xsrfMissing(xsrf) THEN "missing xsrf header"
               ELSE IF bothMissing(origin, referer)
                    THEN "missing origin or referer header"
               ELSE IF originRejects(origin, referer, requiredHost)
                    THEN IF urlParse(origin).err THEN "invalid origin value"
                         ELSE "origin does not match request URL"
               ELSE IF refererRejects(origin, referer, requiredHost)
                    THEN IF urlParse(referer).err THEN "invalid referer value"
                         ELSE "referer does not match request URL"
               ELSE None
    IN  [invoked |-> err = None,
         warned |-> err = None /\ origin = <<>> /\ referer = <<>>,
         rejectLogged |-> err,
         errorPage |-> IF err = None THEN 0 ELSE StatusBadRequest]

----------------------------------------------------------------------------
(* Data of the handlers                                                    *)

\* IdentifiedUser; NilUser is the nil pointer.
NilUser == [nil |-> TRUE, sub |-> "", username |-> "", name |-> ""]
User(sub, username, name) ==
    [nil |-> FALSE, sub |-> sub, username |-> username, name |-> name]

\* The logon cookie held by the browser: absent, not decodable (expired or
\* tampered), or the sealed user.
NoCookie == [kind |-> "absent", user |-> NilUser]
BadCookie == [kind |-> "invalid", user |-> NilUser]
UserCookie(u) == [kind |-> "user", user |-> u]

\* Identifier.GetUserFromLogonCookie: the user sealed in the cookie, nil
\* when there is no cookie or it does not decode.
GetUserFromLogonCookie(jar) == IF jar.kind = "user" THEN jar.user ELSE NilUser

PromptNone == "none"
PromptLogin == "login"
PromptConsent == "consent"
FlowOAuth == "oauth"
FlowConsent == "consent"
FlowOIDC == "oidc"

AuthorizationEndpointURI == "https://idp/authorize"

NilClient == [nil |-> TRUE, Trusted |-> FALSE]
\* clients.Lookup: the registration found (trusted or not), or an error.
ClientLookupOutcomes ==
    {[err |-> TRUE, details |-> NilClient],
     [err |-> FALSE, details |-> [nil |-> FALSE, Trusted |-> TRUE]],
     [err |-> FALSE, details |-> [nil |-> FALSE, Trusted |-> FALSE]]}

NilHelloResponse ==
    [nil |-> TRUE, State |-> "", Success |-> FALSE, Username |-> "",
     DisplayName |-> "", Next |-> "", RequestedScopes |-> {},
     ClientDetails |-> NilClient, ContinueURI |-> "", Flow |-> ""]

----------------------------------------------------------------------------
(* newHelloResponse                                                        *)

\* Faulty variant of helloSkipsSources: prompt=login is not looked at.
helloSkipsSourcesNever(r) == FALSE

\* Line 369: prompt=login leaves the loop before any source is read.
helloSkipsSources(r) == PromptLogin \in r.Prompts

\* Faulty variant of helloPromptNone: prompt=none is let pass.
helloPromptNoneIgnored(r) == FALSE

\* Line 366: prompt=none returns the error at once.
helloPromptNone(r) == PromptNone \in r.Prompts

\* Faulty variant of helloIdentify: the X-Forwarded-User header is looked at
\* before the caller's user and the logon cookie.
helloIdentifyProxyFirst(r, identifiedUser, jar, forwardedUser) ==
    LET response == [NilHelloResponse EXCEPT !.nil = FALSE, !.State = r.State]
        decode == identifiedUser.nil
        user == IF decode THEN GetUserFromLogonCookie(jar) ELSE identifiedUser
        named == IF user.nil THEN response
                 ELSE [response EXCEPT !.Username = user.username,
                                       !.DisplayName = user.name]
    IN  IF helloSkipsSources(r)
        THEN [response |-> response, cookieDecoded |-> FALSE,
              source |-> "skipped"]
        ELSE IF forwardedUser # ""
        THEN [response |-> [response EXCEPT !.Username = forwardedUser,
                                            !.Success = TRUE],
              cookieDecoded |-> FALSE, source |-> "proxy"]
        ELSE IF ~user.nil /\ named.Username # ""
        THEN [response |-> [named EXCEPT !.Success = TRUE],
              cookieDecoded |-> decode,
              source |-> IF decode THEN "cookie" ELSE "caller"]
        ELSE [response |-> named, cookieDecoded |-> decode, source |-> "nobody"]

\* Lines 362-402: the identity loop.  The result is the response so far and
\* whether the logon cookie was decoded.
helloIdentify(r, identifiedUser, jar, forwardedUser) ==
    LET response == [NilHelloResponse EXCEPT !.nil = FALSE, !.State = r.State]
        decode == identifiedUser.nil
        user == IF decode THEN GetUserFromLogonCookie(jar) ELSE identifiedUser
        named == IF user.nil THEN response
                 ELSE [response EXCEPT !.Username = user.username,
                                       !.DisplayName = user.name]
    IN  IF helloSkipsSources(r)
        THEN [response |-> response, cookieDecoded |-> FALSE,
              source |-> "skipped"]
        ELSE IF ~user.nil /\ named.Username # ""
        THEN [response |-> [named EXCEPT !.Success = TRUE],
              cookieDecoded |-> decode,
              source |-> IF decode THEN "cookie" ELSE "caller"]
        ELSE IF forwardedUser # ""
        THEN [response |-> [named EXCEPT !.Username = forwardedUser,
                                         !.Success = TRUE],
              cookieDecoded |-> decode, source |-> "proxy"]
        ELSE [response |-> named, cookieDecoded |-> decode, source |-> "nobody"]

\* Faulty variant of helloFlow: consent is asked for only on prompt=consent,
\* whether or not the client is trusted.
helloFlowPromptOnly(r, response, lookup) ==
    LET promptConsent == PromptConsent \in r.Prompts
        consented == IF promptConsent
                     THEN [response EXCEPT !.Next = FlowConsent,
                                           !.RequestedScopes = r.Scopes,
                                           !.ClientDetails = lookup.details]
                     ELSE response
    IN  [consented EXCEPT !.ContinueURI = AuthorizationEndpointURI,
                          !.Flow = r.Flow]

\* Faulty variant of helloFlow: the continue URI is left out.
helloFlowNoContinue(r, response, lookup) ==
    LET promptConsent == PromptConsent \in r.Prompts \/ ~lookup.details.Trusted
        consented == IF promptConsent
                     THEN [response EXCEPT !.Next = FlowConsent,
                                           !.RequestedScopes = r.Scopes,
                                           !.ClientDetails = lookup.details]
                     ELSE response
    IN  [consented EXCEPT !.Flow = r.Flow]

\* Lines 407-442: the client lookup and the consent decision of one flow.
helloFlow(r, response, lookup) ==
    LET promptConsent == PromptConsent \in r.Prompts \/ ~lookup.details.Trusted
        consented == IF promptConsent
                     THEN [response EXCEPT !.Next = FlowConsent,
                                           !.RequestedScopes = r.Scopes,
                                           !.ClientDetails = lookup.details]
                     ELSE response
    IN  [consented EXCEPT !.ContinueURI = AuthorizationEndpointURI,
                          !.Flow = r.Flow]

\* newHelloResponse: every (response, error) the function can return, with
\* the calls it made, over the outcomes of clients.Lookup.
newHelloResponse(r, identifiedUser, jar, forwardedUser) ==
    LET id == helloIdentify(r, identifiedUser, jar, forwardedUser)
    IN  IF helloPromptNone(r)
        THEN {[err |-> "prompt none requested", response |-> NilHelloResponse,
               cookieDecoded |-> FALSE, lookups |-> 0, client |-> NilClient,
               source |-> "nobody"]}
        ELSE IF ~id.response.Success
        THEN {[err |-> None, response |-> id.response,
               cookieDecoded |-> id.cookieDecoded, lookups |-> 0,
               client |-> NilClient, source |-> id.source]}
        ELSE IF r.Flow \in {FlowOAuth, FlowConsent, FlowOIDC}
        THEN {IF lookup.err
              THEN [err |-> "client lookup failed", response |-> NilHelloResponse,
                    cookieDecoded |-> id.cookieDecoded, lookups |-> 1,
                    client |-> NilClient, source |-> id.source]
              ELSE [err |-> None, response |-> helloFlow(r, id.response, lookup),
                    cookieDecoded |-> id.cookieDecoded, lookups |-> 1,
                    client |-> lookup.details, source |-> id.source]
              : lookup \in ClientLookupOutcomes}
        ELSE {[err |-> None, response |-> id.response,
               cookieDecoded |-> id.cookieDecoded, lookups |-> 0,
               client |-> NilClient, source |-> id.source]}

\* How a return of newHelloResponse is told apart by its callers: an error,
\* a response without success, a response with success.
helloResult(h) ==
    IF h.err # None THEN "error"
    ELSE IF ~h.response.Success THEN "failure"
    ELSE "success"

----------------------------------------------------------------------------
(* What a handler leaves behind: the response and the calls it made.       *)

KeepCookie == [op |-> "keep", user |-> NilUser]
SetCookie(u) == [op |-> "set", user |-> u]
RemoveCookie == [op |-> "remove", user |-> NilUser]

NilConsent == [nil |-> TRUE, Allow |-> FALSE, RawScope |-> ""]
KeepConsent == [op |-> "keep", consent |-> NilConsent]

NoBody == [kind |-> "none", State |-> "", Success |-> FALSE,
           Hello |-> NilHelloResponse]
ErrorBody == [kind |-> "errorPage", State |-> "", Success |-> FALSE,
              Hello |-> NilHelloResponse]
JSONBody(state, success, hello) ==
    [kind |-> "json", State |-> state, Success |-> success, Hello |-> hello]

NoEff ==
    [handlerInvoked |-> FALSE, warned |-> FALSE, rejectLogged |-> None,
     cookieDecodes |-> 0, backendLogon |-> 0, resolveUser |-> 0,
     updateUser |-> 0, clientLookups |-> 0, client |-> NilClient,
     sealLogon |-> 0, sealConsent |-> 0, sealedConsent |-> NilConsent,
     removeLogon |-> 0,
     sealFailed |-> FALSE, backendFailed |-> FALSE, updateFailed |-> FALSE,
     branch |-> None, helloRun |-> FALSE, helloResult |-> None,
     helloDecodes |-> 0, helloSource |-> None]

\* Identifier.ErrorPage
ErrorPage(status, noCache, e) ==
    [status |-> status, noCache |-> noCache, stateHeader |-> None,
     body |-> ErrorBody, setLogon |-> KeepCookie, setConsent |-> KeepConsent,
     eff |-> e]

\* rw.Header().Set("Kopano-Konnect-State", state); rw.WriteHeader(204)
NoContent(state, e) ==
    [status |-> StatusNoContent, noCache |-> TRUE, stateHeader |-> state,
     body |-> NoBody, setLogon |-> KeepCookie, setConsent |-> KeepConsent,
     eff |-> e]

\* utils.WriteJSON(rw, http.StatusOK, response, "")
WriteJSON(body, setLogon, setConsent, e) ==
    [status |-> StatusOK, noCache |-> TRUE, stateHeader |-> None,
     body |-> body, setLogon |-> setLogon, setConsent |-> setConsent,
     eff |-> e]

----------------------------------------------------------------------------
(* handleHello                                                             *)

\* Lines 338-353, after the request is decoded and parsed.
handleHello(r, jar, forwardedUser) ==
    IF ~r.decodes \/ ~r.parses
    THEN {ErrorPage(StatusBadRequest, FALSE, NoEff)}
    ELSE {LET e == [NoEff EXCEPT
                      !.cookieDecodes = IF h.cookieDecoded THEN 1 ELSE 0,
                      !.helloRun = TRUE, !.helloResult = helloResult(h),
                      !.helloDecodes = IF h.cookieDecoded THEN 1 ELSE 0,
                      !.clientLookups = h.lookups, !.client = h.client,
                      !.helloSource = h.source]
          IN  IF h.err # None THEN ErrorPage(StatusBadRequest, TRUE, e)
              ELSE IF ~h.response.Success THEN NoContent(h.response.State, e)
              ELSE WriteJSON(JSONBody(h.response.State, TRUE, h.response),
                             KeepCookie, KeepConsent, e)
          : h \in newHelloResponse(r, NilUser, jar, forwardedUser)}

----------------------------------------------------------------------------
(* handleLogoff, handleConsent                                             *)

\* Whether the ticket codec seals (or clears) the cookie or fails.
SealOutcomes == {TRUE, FALSE}

\* Lines 251-279
handleLogoff(r) ==
    IF ~r.decodes THEN {ErrorPage(StatusBadRequest, FALSE, NoEff)}
    ELSE {LET e == [NoEff EXCEPT !.removeLogon = 1, !.sealFailed = ~ok]
          IN  IF ~ok THEN ErrorPage(StatusInternalServerError, TRUE, e)
              ELSE WriteJSON(JSONBody(r.State, TRUE, NilHelloResponse),
                             RemoveCookie, KeepConsent, e)
          : ok \in SealOutcomes}

\* Faulty variant of consentDenied: a denied consent is sealed as well.
consentDeniedNever(r) == FALSE

\* Line 293: !r.Allow
consentDenied(r) == ~r.Allow

\* Faulty variant of consentRecord: the scope string is dropped.
consentRecordNoScope(r) == [nil |-> FALSE, Allow |-> r.Allow, RawScope |-> ""]

\* Lines 299-302: &Consent{Allow: r.Allow, RawScope: r.RawScope}
consentRecord(r) == [nil |-> FALSE, Allow |-> r.Allow, RawScope |-> r.RawScope]

\* Lines 281-318
handleConsent(r) ==
    IF ~r.decodes THEN {ErrorPage(StatusBadRequest, FALSE, NoEff)}
    ELSE IF consentDenied(r) THEN {NoContent(r.State, NoEff)}
    ELSE {LET e == [NoEff EXCEPT !.sealConsent = 1, !.sealFailed = ~ok,
                                 !.sealedConsent = consentRecord(r)]
          IN  IF ~ok THEN ErrorPage(StatusInternalServerError, TRUE, e)
              ELSE WriteJSON(JSONBody(r.State, TRUE, NilHelloResponse),
                             KeepCookie,
                             [op |-> "set", consent |-> consentRecord(r)], e)
          : ok \in SealOutcomes}

----------------------------------------------------------------------------
(* handleLogon                                                             *)

\* The accounts of the identity backend behind i.backend: alice is a
\* regular account, bob one for which the backend reports an empty subject.
\* Every other user name is unknown to it.
Accounts == {"alice", "bob"}
AccountPassword(username) == "secret"
AccountSubject(username) == IF username = "alice" THEN "sub-alice" ELSE ""
DisplayName == "Display Name"

\* i.backend.Logon: (success, subject, err).  The backend answers from its
\* accounts, or fails without an answer.
BackendLogonOutcomes(username, password) ==
    {[err |-> TRUE, success |-> FALSE, subject |-> ""],
     IF username \in Accounts /\ password = AccountPassword(username)
     THEN [err |-> FALSE, success |-> TRUE, subject |-> AccountSubject(username)]
     ELSE [err |-> FALSE, success |-> FALSE, subject |-> ""]}

\* Identifier.resolveUser: (user, err); "no such user" is (nil, nil).
ResolveUserOutcomes(username) ==
    {[err |-> TRUE, user |-> NilUser],
     IF username \in Accounts
     THEN [err |-> FALSE, user |-> User(AccountSubject(username), username, "")]
     ELSE [err |-> FALSE, user |-> NilUser]}

\* Identifier.updateUser: the profile is refreshed from the backend, or the
\* call fails and leaves the user as it was.
UpdateUserOutcomes(user) ==
    {[err |-> TRUE, user |-> user],
     [err |-> FALSE, user |-> [user EXCEPT !.name = DisplayName]]}

\* Faulty variant of logonBranch: an empty password does not stop the loop,
\* so the backend is asked to check it.
logonBranchNoEmptyStop(params, jar, forwardedUser) ==
    LET cookieUser == GetUserFromLogonCookie(jar)
    IN  IF /\ Len(params) >= 3 /\ params[2] = "" /\ params[3] = "1"
           /\ ~cookieUser.nil /\ cookieUser.username = params[1]
        THEN "passive"
        ELSE IF forwardedUser # ""
        THEN IF Len(params) >= 1 /\ forwardedUser = params[1]
             THEN "proxy" ELSE "proxy-mismatch"
        ELSE IF Len(params) >= 3 /\ params[3] = "1" THEN "backend"
        ELSE "none"

\* Faulty variant of logonBranch: the credentials are never checked.
logonBranchNoBackend(params, jar, forwardedUser) ==
    LET cookieUser == GetUserFromLogonCookie(jar)
    IN  IF /\ Len(params) >= 3 /\ params[2] = "" /\ params[3] = "1"
           /\ ~cookieUser.nil /\ cookieUser.username = params[1]
        THEN "passive"
        ELSE IF forwardedUser # ""
        THEN IF Len(params) >= 1 /\ forwardedUser = params[1]
             THEN "proxy" ELSE "proxy-mismatch"
        ELSE IF Len(params) >= 2 /\ params[2] = "" THEN "empty-password"
        ELSE "none"

\* Faulty variant of logonBranch: the X-Forwarded-User header is looked at
\* before the logon cookie.
logonBranchProxyFirst(params, jar, forwardedUser) ==
    LET cookieUser == GetUserFromLogonCookie(jar)
    IN  IF forwardedUser # ""
        THEN IF Len(params) >= 1 /\ forwardedUser = params[1]
             THEN "proxy" ELSE "proxy-mismatch"
        ELSE IF /\ Len(params) >= 3 /\ params[2] = "" /\ params[3] = "1"
                /\ ~cookieUser.nil /\ cookieUser.username = params[1]
        THEN "passive"
        ELSE IF Len(params) >= 2 /\ params[2] = "" THEN "empty-password"
        ELSE IF Len(params) >= 3 /\ params[3] = "1" THEN "backend"
        ELSE "none"

\* Faulty variant of logonBranch: a header that differs from the user name
\* does not end the loop, so the credentials are checked after it.
logonBranchProxyFallsThrough(params, jar, forwardedUser) ==
    LET cookieUser == GetUserFromLogonCookie(jar)
    IN  IF /\ Len(params) >= 3 /\ params[2] = "" /\ params[3] = "1"
           /\ ~cookieUser.nil /\ cookieUser.username = params[1]
        THEN "passive"
        ELSE IF forwardedUser # "" /\ Len(params) >= 1 /\ forwardedUser = params[1]
        THEN "proxy"
        ELSE IF Len(params) >= 2 /\ params[2] = "" THEN "empty-password"
        ELSE IF Len(params) >= 3 /\ params[3] = "1" THEN "backend"
        ELSE "none"

\* Faulty variant of logonBranch: a password is checked whatever the mode
\* flag is.
logonBranchAnyMode(params, jar, forwardedUser) ==
    LET cookieUser == GetUserFromLogonCookie(jar)
    IN  IF /\ Len(params) >= 3 /\ params[2] = "" /\ params[3] = "1"
           /\ ~cookieUser.nil /\ cookieUser.username = params[1]
        THEN "passive"
        ELSE IF forwardedUser # ""
        THEN IF Len(params) >= 1 /\ forwardedUser = params[1]
             THEN "proxy" ELSE "proxy-mismatch"
        ELSE IF Len(params) >= 2 /\ params[2] = "" THEN "empty-password"
        ELSE IF Len(params) >= 2 THEN "backend"
        ELSE "none"

\* Lines 141-196: which branch of the loop decides the request.
logonBranch(params, jar, forwardedUser) ==
    LET cookieUser == GetUserFromLogonCookie(jar)
    IN  IF /\ Len(params) >= 3 /\ params[2] = "" /\ params[3] = "1"
           /\ ~cookieUser.nil /\ cookieUser.username = params[1]
        THEN "passive"
        ELSE IF forwardedUser # ""
        THEN IF Len(params) >= 1 /\ forwardedUser = params[1]
             THEN "proxy" ELSE "proxy-mismatch"
        ELSE IF Len(params) >= 2 /\ params[2] = "" THEN "empty-password"
        ELSE IF Len(params) >= 3 /\ params[3] = "1" THEN "backend"
        ELSE "none"

\* Lines 141-196: the user the loop ends with, or the 500 it answers, with
\* the calls made, over the outcomes of the backend.
logonIdentify(params, jar, forwardedUser) ==
    LET branch == logonBranch(params, jar, forwardedUser)
        e == [NoEff EXCEPT
                !.branch = branch,
                !.cookieDecodes =
                    IF Len(params) >= 3 /\ params[2] = "" /\ params[3] = "1"
                    THEN 1 ELSE 0]
    IN  CASE branch = "passive" ->
               {[abort |-> FALSE, user |-> GetUserFromLogonCookie(jar), eff |-> e]}
          [] branch = "proxy" ->
               {[abort |-> o.err, user |-> o.user,
                 eff |-> [e EXCEPT !.resolveUser = 1, !.backendFailed = o.err]]
                : o \in ResolveUserOutcomes(params[1])}
          [] branch = "backend" ->
               {[abort |-> o.err,
                 user |-> IF o.success THEN User(o.subject, params[1], "")
                          ELSE NilUser,
                 eff |-> [e EXCEPT !.backendLogon = 1, !.backendFailed = o.err]]
                : o \in BackendLogonOutcomes(params[1], params[2])}
          [] OTHER -> {[abort |-> FALSE, user |-> NilUser, eff |-> e]}

\* Faulty variant of logonSeal: success is reported without a cookie.
logonSealNoCookie(r, user, hello, ok, e) ==
    WriteJSON(JSONBody(r.State, TRUE, hello), KeepCookie, KeepConsent,
              [e EXCEPT !.sealLogon = 1, !.sealFailed = ~ok])

\* Lines 236-248: the logon cookie is sealed and success answered.
logonSeal(r, user, hello, ok, e) ==
    IF ~ok
    THEN ErrorPage(StatusInternalServerError, TRUE,
                   [e EXCEPT !.sealLogon = 1, !.sealFailed = TRUE])
    ELSE WriteJSON(JSONBody(r.State, TRUE, hello), SetCookie(user), KeepConsent,
                   [e EXCEPT !.sealLogon = 1])

\* Lines 213-234: the nested Hello of a logon request, for the user found.
logonHello(r, user, jar, forwardedUser, e) ==
    IF ~r.Hello.parses THEN {ErrorPage(StatusBadRequest, TRUE, e)}
    ELSE UNION {
        LET eh == [e EXCEPT
                     !.cookieDecodes = @ + IF h.cookieDecoded THEN 1 ELSE 0,
                     !.helloRun = TRUE, !.helloResult = helloResult(h),
                     !.helloDecodes = IF h.cookieDecoded THEN 1 ELSE 0,
                     !.clientLookups = h.lookups, !.client = h.client,
                     !.helloSource = h.source]
        IN  IF h.err # None THEN {ErrorPage(StatusBadRequest, TRUE, eh)}
            ELSE IF ~h.response.Success THEN {NoContent(r.State, eh)}
            ELSE {logonSeal(r, user, h.response, ok, eh) : ok \in SealOutcomes}
        : h \in newHelloResponse(r.Hello, user, jar, forwardedUser)}

\* handleLogon, lines 122-249.
handleLogon(r, jar, forwardedUser) ==
    IF ~r.decodes THEN {ErrorPage(StatusBadRequest, FALSE, NoEff)}
    ELSE UNION {
        IF id.abort THEN {ErrorPage(StatusInternalServerError, TRUE, id.eff)}
        ELSE IF id.user.nil \/ id.user.sub = "" THEN {NoContent(r.State, id.eff)}
        ELSE UNION {
            LET e == [id.eff EXCEPT !.updateUser = 1, !.updateFailed = u.err]
            IN  IF r.Hello.nil
                THEN {logonSeal(r, u.user, NilHelloResponse, ok, e)
                      : ok \in SealOutcomes}
                ELSE logonHello(r, u.user, jar, forwardedUser, e)
            : u \in UpdateUserOutcomes(id.user)}
        : id \in logonIdentify(r.Params, jar, forwardedUser)}

----------------------------------------------------------------------------
(* Requests                                                                *)

MaxParams == 3

XSRFValues == {"", "1", "0"}
Hosts == {<<"x">>, <<"y">>}
Origins ==
    {<<>>,
     <<"h", ":", "/", "/", "x">>,
     <<"h", ":", "/", "/", "y">>,
     <<"h", ":", "/", "/", "x", "/", "p">>,
     <<"h", ":", "/", "/", "u", "@", "x">>,
     <<"/", "/", "x">>,
     <<"x">>,
     <<"h", ":", "x">>,
     <<":", "x">>,
     <<"h", ":", "/", "/", "%">>}
Referers ==
    {<<>>,
     <<"h", ":", "/", "/", "x", "/", "p">>,
     <<"h", ":", "/", "/", "y", "/", "p", "?", "u">>,
     <<":", "x">>}
Bodies == {"", "{}"}
HandlerStatuses ==
    {StatusOK, StatusNoContent, StatusBadRequest, StatusInternalServerError}

States == {"s1", "s2"}
Usernames == {"alice", "bob", "carol"}
Passwords == {"", "secret", "wrong"}
Modes == {"", "1", "0"}
ForwardedUsers == {"", "alice", "bob", "carol"}
Prompts == {PromptNone, PromptLogin, PromptConsent}
Flows == {"", FlowOAuth, FlowConsent, FlowOIDC, "other"}
RawScopes == {"", "openid profile"}

\* The params array of a LogonRequest: [$username, $password, $mode], cut
\* short or carrying further elements.
ParamAt(i) ==
    IF i = 1 THEN Usernames
    ELSE IF i = 2 THEN Passwords
    ELSE IF i = 3 THEN Modes
    ELSE {"extra"}
ParamLists ==
    UNION {{p \in [1..n -> Usernames \cup Passwords \cup Modes \cup {"extra"}] :
              \A i \in 1..n : p[i] \in ParamAt(i)} : n \in 0..MaxParams}

\* HelloRequest, after parse(): Prompts is the set of requested prompts.
NilHello ==
    [nil |-> TRUE, decodes |-> TRUE, parses |-> TRUE, State |-> "",
     Prompts |-> {}, Flow |-> "", Scopes |-> {}]
HelloRequests(states) ==
    {[nil |-> FALSE, decodes |-> TRUE, parses |-> TRUE, State |-> st,
      Prompts |-> ps, Flow |-> f, Scopes |-> {"openid"}]
     : st \in states, ps \in SUBSET Prompts, f \in Flows}
\* A HelloRequest whose JSON does not decode, and one whose values do not
\* parse.
BadHelloRequests ==
    {[NilHello EXCEPT !.nil = FALSE, !.decodes = FALSE],
     [NilHello EXCEPT !.nil = FALSE, !.parses = FALSE]}

LogonRequests ==
    {[endpoint |-> "logon", decodes |-> TRUE, State |-> st, Params |-> ps,
      Hello |-> h]
     : st \in States, ps \in ParamLists,
       h \in {NilHello} \cup HelloRequests({"hello-state"})
             \cup {[NilHello EXCEPT !.nil = FALSE, !.parses = FALSE]}}
    \cup {[endpoint |-> "logon", decodes |-> FALSE, State |-> "",
           Params |-> <<>>, Hello |-> NilHello]}

StateRequests ==
    {[endpoint |-> "logoff", decodes |-> d, State |-> IF d THEN st ELSE ""]
     : d \in BOOLEAN, st \in States}

ConsentRequests ==
    {[endpoint |-> "consent", decodes |-> TRUE, State |-> st, Allow |-> a,
      RawScope |-> sc] : st \in States, a \in BOOLEAN, sc \in RawScopes}
    \cup {[endpoint |-> "consent", decodes |-> FALSE, State |-> "",
           Allow |-> FALSE, RawScope |-> ""]}

NoRequest == [endpoint |-> None]
NoResponse ==
    [status |-> 0, noCache |-> FALSE, stateHeader |-> None, body |-> NoBody,
     setLogon |-> KeepCookie, setConsent |-> KeepConsent]

Response(out) ==
    [status |-> out.status, noCache |-> out.noCache,
     stateHeader |-> out.stateHeader, body |-> out.body,
     setLogon |-> out.setLogon, setConsent |-> out.setConsent]

NoLdap == [op |-> None]

----------------------------------------------------------------------------
(* The request cycle                                                       *)

Init ==
    /\ phase = "idle"
    /\ cookieJar = NoCookie
    /\ consentJar = NilConsent
    /\ req = NoRequest
    /\ resp = NoResponse
    /\ eff = NoEff
    /\ backend = NoLdap
    /\ directory = <<>>
    /\ ldapReq = NoLdap
    /\ ldapRes = NoLdap
    /\ issued = NoLdap
    /\ calls = <<>>
    /\ limiter = NoLdap

\* The result a handler ends with is written for the request.
Written(request, out) ==
    /\ req' = request
    /\ resp' = Response(out)
    /\ eff' = out.eff
    /\ phase' = "done"
    /\ UNCHANGED <<cookieJar, consentJar>>
    /\ UNCHANGED ldapVars

\* A request through secureHandler: rejected with the error page, or handed
\* to the wrapped handler, which answers with a status of its own.
SecureHandler ==
    /\ phase = "idle"
    /\ \E xsrf \in XSRFValues, origin \in Origins, referer \in Referers,
          host \in Hosts, body \in Bodies :
         LET d == secureHandler(xsrf, origin, referer, host)
             e == [NoEff EXCEPT !.handlerInvoked = d.invoked,
                                !.warned = d.warned,
                                !.rejectLogged = d.rejectLogged]
         IN  \E out \in IF d.invoked
                        THEN {[ErrorPage(hs, FALSE, e) EXCEPT !.body = NoBody]
                              : hs \in HandlerStatuses}
                        ELSE {ErrorPage(d.errorPage, FALSE, e)} :
               Written([endpoint |-> "secure", xsrf |-> xsrf, origin |-> origin,
                        referer |-> referer, host |-> host, body |-> body], out)

HandleLogon ==
    /\ phase = "idle"
    /\ \E r \in LogonRequests, forwardedUser \in ForwardedUsers :
         \E out \in handleLogon(r, cookieJar, forwardedUser) :
           Written(r @@ [forwardedUser |-> forwardedUser], out)

HandleLogoff ==
    /\ phase = "idle"
    /\ \E r \in StateRequests : \E out \in handleLogoff(r) : Written(r, out)

HandleConsent ==
    /\ phase = "idle"
    /\ \E r \in ConsentRequests : \E out \in handleConsent(r) : Written(r, out)

HandleHello ==
    /\ phase = "idle"
    /\ \E r \in HelloRequests(States) \cup BadHelloRequests,
          forwardedUser \in ForwardedUsers :
         \E out \in handleHello(r, cookieJar, forwardedUser) :
           Written([endpoint |-> "hello", r |-> r,
                    forwardedUser |-> forwardedUser], out)

\* The browser takes the response: the cookies it sets replace those held,
\* and what belonged to the request is dropped.
EndRequest ==
    /\ phase = "done"
    /\ phase' = "idle"
    /\ cookieJar' = CASE resp.setLogon.op = "set" -> UserCookie(resp.setLogon.user)
                      [] resp.setLogon.op = "remove" -> NoCookie
                      [] OTHER -> cookieJar
    /\ consentJar' = IF resp.setConsent.op = "set" THEN resp.setConsent.consent
                     ELSE consentJar
    /\ req' = NoRequest
    /\ resp' = NoResponse
    /\ eff' = NoEff
    /\ UNCHANGED ldapVars

\* The sealed logon cookie expires: it no longer decodes.
CookieExpires ==
    /\ phase = "idle"
    /\ cookieJar.kind = "user"
    /\ cookieJar' = BadCookie
    /\ UNCHANGED <<phase, consentJar, req, resp, eff>>
    /\ UNCHANGED ldapVars

Next ==
    \/ SecureHandler
    \/ HandleLogon
    \/ HandleLogoff
    \/ HandleConsent
    \/ HandleHello
    \/ EndRequest
    \/ CookieExpires

Spec == Init /\ [][Next]_vars

----------------------------------------------------------------------------
(* Properties of the handlers                                              *)

Served(endpoint) == phase = "done" /\ req.endpoint = endpoint

\* The host url.Parse finds in a header value equals the request's Host.
HostMatches(value, host) == ~urlParse(value).err /\ urlParse(value).Host = host

\* C1: a request without the XSRF marker (the header absent, or with any
\* value but "1") is answered with the 400 error page and the wrapped
\* handler is not invoked, whatever its Origin, Referer, Host and body are.
C1_XsrfRequired ==
    (Served("secure") /\ req.xsrf # "1")
        => /\ resp.status = StatusBadRequest
           /\ resp.body.kind = "errorPage"
           /\ ~eff.handlerInvoked

\* C1 witness: a request whose Origin names the request's own Host, and which
\* lacks only the marker, was answered 400 without the handler.
C1_Witness ==
    /\ Served("secure")
    /\ req.xsrf = ""
    /\ req.body = "{}"
    /\ HostMatches(req.origin, req.host)
    /\ resp.status = StatusBadRequest
    /\ ~eff.handlerInvoked

\* C2: with the XSRF marker and an Origin header, the wrapped handler is
\* invoked exactly when the Origin's host equals the request's Host; when it
\* does not, the answer is the 400 error page, whatever the Referer is.
C2_OriginDecides ==
    (Served("secure") /\ req.xsrf = "1" /\ req.origin # <<>>)
        => /\ eff.handlerInvoked <=> HostMatches(req.origin, req.host)
           /\ ~HostMatches(req.origin, req.host)
                => /\ resp.status = StatusBadRequest
                   /\ resp.body.kind = "errorPage"

\* C2 witness: an Origin of another host was refused although the Referer
\* names the request's own Host.
C2_Witness ==
    /\ Served("secure")
    /\ req.xsrf = "1"
    /\ req.origin = <<"h", ":", "/", "/", "y">>
    /\ req.host = <<"x">>
    /\ HostMatches(req.referer, req.host)
    /\ resp.status = StatusBadRequest
    /\ ~eff.handlerInvoked

\* C3 as claimed: a request with the XSRF marker and neither an Origin nor a
\* Referer header is not blocked: a warning is logged and the wrapped handler
\* is invoked.
C3_Claimed ==
    (Served("secure") /\ req.xsrf = "1" /\ req.origin = <<>> /\ req.referer = <<>>)
        => eff.handlerInvoked /\ eff.warned

\* C3 as amended: a request with the XSRF marker and neither an Origin nor a
\* Referer header is rejected with the 400 error page: the wrapped handler is
\* not invoked, and what is logged is the rejection, not the warning of an
\* insecure request.
C3_BothMissingRejected ==
    (Served("secure") /\ req.xsrf = "1" /\ req.origin = <<>> /\ req.referer = <<>>)
        => /\ resp.status = StatusBadRequest
           /\ resp.body.kind = "errorPage"
           /\ ~eff.handlerInvoked
           /\ ~eff.warned
           /\ eff.rejectLogged = "missing origin or referer header"

\* C3 witness: such a request was served and answered 400.
C3_Witness ==
    /\ Served("secure")
    /\ req.xsrf = "1"
    /\ req.origin = <<>>
    /\ req.referer = <<>>
    /\ resp.status = StatusBadRequest
    /\ ~eff.handlerInvoked

\* The Hello request evaluated by the request being served, directly or
\* nested in a logon, if newHelloResponse ran for it.
HelloEvaluated ==
    /\ phase = "done"
    /\ req.endpoint \in {"hello", "logon"}
    /\ eff.helloRun
EvaluatedHello == IF req.endpoint = "hello" THEN req.r ELSE req.Hello

\* C4: a Hello evaluation with prompt=none never reports success, resolves
\* no identity (the cookie is not decoded, no source is used, no user name
\* is reported) and does not consult the client registry, whatever the
\* cookie, the user supplied by the caller and the X-Forwarded-User header.
C4_PromptNoneFails ==
    (HelloEvaluated /\ PromptNone \in EvaluatedHello.Prompts)
        => /\ resp.status # StatusOK
           /\ ~resp.body.Success
           /\ resp.body.Hello.nil
           /\ eff.helloDecodes = 0
           /\ eff.helloSource = "nobody"
           /\ eff.clientLookups = 0
           /\ resp.setLogon.op = "keep"

\* C4 witness: a direct Hello with prompt=none alone failed although the
\* browser holds a valid logon cookie and a proxy asserts a user.
C4_Witness ==
    /\ Served("hello")
    /\ eff.helloRun
    /\ req.r.Prompts = {PromptNone}
    /\ req.r.Flow = FlowOIDC
    /\ cookieJar.kind = "user"
    /\ req.forwardedUser # ""
    /\ resp.status # StatusOK

\* C5 as claimed: a direct Hello that carries prompt=login reports no
\* identity and answers 204, for every logon cookie and every
\* X-Forwarded-User value.
C5_Claimed ==
    (Served("hello") /\ eff.helloRun /\ PromptLogin \in req.r.Prompts)
        => /\ resp.status = StatusNoContent
           /\ ~resp.body.Success
           /\ eff.helloDecodes = 0

\* C5 as amended: a direct Hello that carries prompt=login reads neither the
\* logon cookie nor the X-Forwarded-User header and reports no identity; it
\* answers 204 with the request's state, unless it carries prompt=none as
\* well, which is answered first, with the 400 error page.
C5_PromptLoginSkipsSources ==
    (Served("hello") /\ eff.helloRun /\ PromptLogin \in req.r.Prompts)
        => /\ ~resp.body.Success
           /\ resp.body.kind # "json"
           /\ eff.helloDecodes = 0
           /\ eff.helloSource \in {"skipped", "nobody"}
           /\ eff.clientLookups = 0
           /\ PromptNone \notin req.r.Prompts
                => /\ resp.status = StatusNoContent
                   /\ resp.stateHeader = req.r.State
                   /\ eff.helloSource = "skipped"
           /\ PromptNone \in req.r.Prompts => resp.status = StatusBadRequest

\* C5 witness: a direct Hello with prompt=login was answered 204 although
\* the browser holds a valid logon cookie and a proxy asserts a user.
C5_Witness ==
    /\ Served("hello")
    /\ eff.helloRun
    /\ req.r.Prompts = {PromptLogin}
    /\ cookieJar.kind = "user"
    /\ cookieJar.user.username # ""
    /\ req.forwardedUser # ""
    /\ resp.status = StatusNoContent

\* The backend has the account and the password is the account's.
BackendAccepts(username, password) ==
    username \in Accounts /\ password = AccountPassword(username)

\* C6: a logon with params [username, password, "1"], a non-empty password
\* and no X-Forwarded-User header, for which the backend accepts the pair
\* with a non-empty subject, ends with 200, success=true, the request's state
\* echoed and a logon cookie sealed for that user, provided the backend call
\* and the sealing do not fail and the nested Hello, if any, succeeds.
C6_LogonSucceeds ==
    (/\ Served("logon") /\ req.decodes
     /\ Len(req.Params) >= 3
     /\ req.Params[2] # "" /\ req.Params[3] = "1"
     /\ req.forwardedUser = ""
     /\ BackendAccepts(req.Params[1], req.Params[2])
     /\ AccountSubject(req.Params[1]) # ""
     /\ ~eff.backendFailed /\ ~eff.sealFailed
     /\ req.Hello.nil \/ eff.helloResult = "success")
        => /\ resp.status = StatusOK
           /\ resp.body.kind = "json"
           /\ resp.body.Success
           /\ resp.body.State = req.State
           /\ eff.backendLogon = 1
           /\ resp.setLogon.op = "set"
           /\ resp.setLogon.user.sub = AccountSubject(req.Params[1])
           /\ resp.setLogon.user.username = req.Params[1]

\* C6 witness: alice logged on with her password and a nested Hello, and
\* the cookie was sealed.
C6_Witness ==
    /\ Served("logon")
    /\ req.Params = <<"alice", "secret", "1">>
    /\ req.forwardedUser = ""
    /\ ~req.Hello.nil
    /\ resp.status = StatusOK
    /\ resp.body.Hello.Success
    /\ resp.setLogon.op = "set"

\* C7: a logon with an empty password, no logon cookie that decodes and no
\* X-Forwarded-User header ends with 204 and the request's state in the
\* header and nothing else: no body, no cookie, no call of the backend's
\* Logon or of resolveUser, for every user name and every mode flag.
C7_EmptyPasswordProbe ==
    (/\ Served("logon") /\ req.decodes
     /\ Len(req.Params) >= 2 /\ req.Params[2] = ""
     /\ cookieJar.kind # "user"
     /\ req.forwardedUser = "")
        => /\ resp.status = StatusNoContent
           /\ resp.stateHeader = req.State
           /\ resp.body.kind = "none"
           /\ resp.setLogon.op = "keep"
           /\ eff.backendLogon = 0
           /\ eff.resolveUser = 0
           /\ eff.updateUser = 0
           /\ eff.sealLogon = 0

\* C7 witness: such a logon with mode flag "1" and the name of an account.
C7_Witness ==
    /\ Served("logon")
    /\ req.Params = <<"alice", "", "1">>
    /\ cookieJar.kind = "absent"
    /\ req.forwardedUser = ""
    /\ resp.status = StatusNoContent

\* C8: a consent cookie is written only for allow=true.  With allow=false
\* the answer is 204 and nothing is sealed; with allow=true the record
\* sealed holds the allow flag and the raw scope string of the request, and
\* the answer is 200 success with the state echoed, or 500 without a cookie
\* when the sealing fails.
C8_ConsentCookie ==
    (Served("consent") /\ req.decodes)
        => /\ resp.setConsent.op = "set" => req.Allow
           /\ ~req.Allow
                => /\ resp.status = StatusNoContent
                   /\ eff.sealConsent = 0
                   /\ resp.setConsent.op = "keep"
           /\ req.Allow
                => /\ eff.sealConsent = 1
                   /\ eff.sealedConsent =
                        [nil |-> FALSE, Allow |-> TRUE, RawScope |-> req.RawScope]
                   /\ ~eff.sealFailed
                        => /\ resp.status = StatusOK
                           /\ resp.body.Success
                           /\ resp.body.State = req.State
                           /\ resp.setConsent.op = "set"
                           /\ resp.setConsent.consent = eff.sealedConsent
                   /\ eff.sealFailed
                        => /\ resp.status = StatusInternalServerError
                           /\ resp.setConsent.op = "keep"

\* C8 witness: a denied consent answered 204 while the browser holds the
\* consent cookie of an earlier grant, which stays as it is.
C8_Witness ==
    /\ Served("consent")
    /\ req.decodes
    /\ ~req.Allow
    /\ consentJar = [nil |-> FALSE, Allow |-> TRUE, RawScope |-> "openid profile"]
    /\ resp.status = StatusNoContent
    /\ resp.setConsent.op = "keep"

----------------------------------------------------------------------------
(* The LDAP backend: strings                                               *)

\* The byte of each character the directory's strings are written in.
Ord(c) ==
    CASE c = "%" -> 37 [] c = "&" -> 38 [] c = "(" -> 40 [] c = ")" -> 41
      [] c = "*" -> 42 [] c = "+" -> 43
      [] c = "," -> 44 [] c = "1" -> 49 [] c = "2" -> 50 [] c = "3" -> 51
      [] c = "4" -> 52 [] c = "=" -> 61 [] c = "@" -> 64 [] c = "B" -> 66
      [] c = "O" -> 79 [] c = "a" -> 97 [] c = "b" -> 98 [] c = "c" -> 99
      [] c = "d" -> 100 [] c = "e" -> 101 [] c = "i" -> 105 [] c = "l" -> 108
      [] c = "m" -> 109 [] c = "n" -> 110 [] c = "o" -> 111 [] c = "r" -> 114
      [] c = "u" -> 117 [] c = "x" -> 120 [] c = "y" -> 121 [] c = "z" -> 122

\* unicode.ToLower on the upper-case letters in use.
lowerChar(c) == CASE c = "B" -> "b" [] c = "O" -> "o" [] OTHER -> c

\* strings.ToLower
ToLower(s) == [i \in 1..Len(s) |-> lowerChar(s[i])]

\* Faulty variant of EqualFold: the comparison is case-sensitive.
EqualExact(s, t) == s = t

\* strings.EqualFold
EqualFold(s, t) == ToLower(s) = ToLower(t)

\* s < t, byte by byte, as sort.Strings orders strings.
RECURSIVE Less(_, _)
Less(s, t) ==
    IF t = <<>> THEN FALSE
    ELSE IF s = <<>> THEN TRUE
    ELSE IF Ord(Head(s)) # Ord(Head(t)) THEN Ord(Head(s)) < Ord(Head(t))
    ELSE Less(Tail(s), Tail(t))

\* sort.Strings on a set of keys.
RECURSIVE SortStrings(_)
SortStrings(keys) ==
    IF keys = {} THEN <<>>
    ELSE LET least == CHOOSE k \in keys : \A o \in keys \ {k} : Less(k, o)
         IN  <<least>> \o SortStrings(keys \ {least})

\* url.QueryEscape of one character: letters and digits stay, the others
\* become "%" and their byte in hex.
escapeChar(c) ==
    CASE c = "@" -> <<"%", "4", "0">>
      [] c = "=" -> <<"%", "3", "D">>
      [] c = "&" -> <<"%", "2", "6">>
      [] c = "+" -> <<"%", "2", "B">>
      [] c = "," -> <<"%", "2", "C">>
      [] c = "%" -> <<"%", "2", "5">>
      [] c = "*" -> <<"%", "2", "A">>
      [] c = "(" -> <<"%", "2", "8">>
      [] c = ")" -> <<"%", "2", "9">>
      [] OTHER -> <<c>>

\* url.QueryEscape
RECURSIVE QueryEscape(_)
QueryEscape(s) ==
    IF s = <<>> THEN <<>> ELSE escapeChar(Head(s)) \o QueryEscape(Tail(s))

\* One key of url.Values.Encode: "k=v" for each value, in the values' order,
\* each after an "&" unless it is the first of the whole string.
RECURSIVE encodeKey(_, _, _)
encodeKey(buf, k, vs) ==
    IF vs = <<>> THEN buf
    ELSE encodeKey((IF buf = <<>> THEN <<>> ELSE buf \o <<"&">>)
                   \o QueryEscape(k) \o <<"=">> \o QueryEscape(Head(vs)),
                   k, Tail(vs))

RECURSIVE encodeKeys(_, _, _)
encodeKeys(buf, keys, values) ==
    IF keys = <<>> THEN buf
    ELSE encodeKeys(encodeKey(buf, Head(keys), values[Head(keys)]),
                    Tail(keys), values)

\* url.Values.Encode: the keys sorted, values a function from key to values.
Encode(values) == encodeKeys(<<>>, SortStrings(DOMAIN values), values)

----------------------------------------------------------------------------
(* The LDAP backend: directory and server                                  *)

MaxEntries == 2

uid == <<"u", "i", "d">>
mail == <<"m", "a", "i", "l">>
ou == <<"o", "u">>
amy == <<"a", "m", "y">>
bob == <<"b", "o", "b">>
BOB == <<"B", "O", "B">>
rob == <<"r", "o", "b">>
zed == <<"z", "e", "d">>
mailA == <<"a", "@", "x">>
mailB == <<"b", "@", "x">>
mailR == <<"r", "@", "x">>
pwA == <<"a", "1">>
pwB == <<"b", "2">>
cn == <<"c", "n">>
cnA == <<"a", "(", "y", ")">>

\* ldap.EntryAttribute
Attribute(name, values) == [Name |-> name, Values |-> values]

\* The entries a directory is made of: what the server stores of each, and
\* the password its DN binds with.
\*   1: one login name, one mail address, a common name with a remark in
\*      parentheses
\*   2: two login names and two mail addresses
\*   3: a login name that differs from bob only by case, and no mail address
Catalogue ==
    <<[attrs |-> <<Attribute(uid, <<amy>>), Attribute(mail, <<mailA>>),
                   Attribute(ou, <<amy>>), Attribute(cn, <<cnA>>)>>,
       password |-> pwA],
      [attrs |-> <<Attribute(uid, <<rob, bob>>),
                   Attribute(mail, <<mailR, mailB>>)>>,
       password |-> pwB],
      [attrs |-> <<Attribute(uid, <<BOB>>)>>,
       password |-> pwB]>>

\* The DN of the entry at a position of the directory.
DNOf(i) == <<"c", "n", "=">> \o <<CASE i = 1 -> "1" [] i = 2 -> "2"
                                    [] i = 3 -> "3" [] OTHER -> "4">>

\* A directory: up to MaxEntries entries of the catalogue, each under its DN.
Directories ==
    UNION {{[i \in 1..n |-> [DN |-> DNOf(i), attrs |-> Catalogue[pick[i]].attrs,
                             password |-> Catalogue[pick[i]].password]]
            : pick \in [1..n -> 1..Len(Catalogue)]} : n \in 0..MaxEntries}

\* The server's equality match of the login attribute (caseIgnoreMatch): some
\* value of the attribute, named in any case, equals the name in any case.
serverMatches(entry, attribute, value) ==
    \E i \in 1..Len(entry.attrs) :
        /\ ToLower(entry.attrs[i].Name) = ToLower(attribute)
        /\ \E j \in 1..Len(entry.attrs[i].Values) :
             ToLower(entry.attrs[i].Values[j]) = ToLower(value)

\* The ldap.Entry the server returns: the DN and the attributes asked for.
serverEntry(entry, attributes) ==
    [DN |-> entry.DN,
     Attributes |-> SelectSeq(entry.attrs,
                      LAMBDA a : \E i \in 1..Len(attributes) :
                                    ToLower(attributes[i]) = ToLower(a.Name))]

\* ldap.Entry.GetAttributeValues: the values of the attribute of that very
\* name, none when the entry has no such attribute.
GetAttributeValues(entry, attribute) ==
    IF \E i \in 1..Len(entry.Attributes) : entry.Attributes[i].Name = attribute
    THEN entry.Attributes[CHOOSE i \in 1..Len(entry.Attributes) :
                            /\ entry.Attributes[i].Name = attribute
                            /\ \A j \in 1..(i - 1) :
                                 entry.Attributes[j].Name # attribute].Values
    ELSE <<>>

\* ldap.Entry.GetAttributeValue: the first value, "" when there is none.
GetAttributeValue(entry, attribute) ==
    IF GetAttributeValues(entry, attribute) = <<>> THEN <<>>
    ELSE GetAttributeValues(entry, attribute)[1]

----------------------------------------------------------------------------
(* The LDAP backend: LDAPIdentifierBackend                                 *)

dn == <<"d", "n">>

\* error values: nil, an *ldap.Error with its result code, or a plain error
\* as fmt.Errorf makes it.
NoError == [nil |-> TRUE, ldap |-> FALSE, code |-> "", text |-> ""]
NewError(code) == [nil |-> FALSE, ldap |-> TRUE, code |-> code, text |-> ""]
Errorf(text) == [nil |-> FALSE, ldap |-> FALSE, code |-> "", text |-> text]

\* ldap.IsErrorWithCode
IsErrorWithCode(err, code) == ~err.nil /\ err.ldap /\ err.code = code

\* The sub attribute lists a backend may be constructed with; the empty list
\* leaves entryIDMapping nil.
EntryIDMappings == {<<>>, <<uid>>, <<mail>>, <<mail, uid>>, <<ou>>, <<cn>>}

\* NewLDAPIdentifierBackend with an ldaps URI, a bind DN, a base DN and a
\* filter: the default attribute mapping, the sub attributes as given.
NewLDAPIdentifierBackend(subAttributes) ==
    [isTLS |-> TRUE,
     bindDN |-> <<"c", "n", "=", "a", "d", "m", "i", "n">>,
     baseDN |-> <<"o", "=", "x">>,
     getFilter |-> <<"(", "u", "i", "d", "=", "*", ")">>,
     attributeMapping |-> [login |-> uid, email |-> mail, name |-> cn],
     entryIDMapping |-> subAttributes]

Backends == {NewLDAPIdentifierBackend(m) : m \in EntryIDMappings}

\* ldapAttributeMapping.attributes: the DN and every mapped attribute.
attributes(m) == <<dn, m.login, m.email, m.name>>

\* How the steps of connect may end.
ConnectOutcomes == {"ok", "limiter", "dial", "handshake", "bind"}

\* connect, lines 460-502: the connection, or the error of the step that
\* failed.  A failed administrative bind returns the server's own error.
connect(b, outcome) ==
    CASE outcome = "limiter" -> Errorf("rate: Wait(n=1) would exceed context deadline")
      [] outcome = "dial" -> NewError("Network")
      [] outcome = "handshake" /\ b.isTLS -> NewError("Network")
      [] outcome = "bind" /\ b.bindDN # <<>> -> NewError("InvalidCredentials")
      [] OTHER -> NoError

\* How the server may answer a search: with the matching entries, cut to the
\* request's size limit of one entry or not, or with an error.
SearchOutcomes == {"served", "unlimited", "NoSuchObject", "Other"}

\* l.Search for a login name: the entries returned and the error.  A server
\* that keeps to the size limit of 1 answers more than one match with the
\* first entry and sizeLimitExceeded.
Search(b, dir, username, atts, outcome) ==
    LET matching == SelectSeq(dir, LAMBDA e :
                        serverMatches(e, b.attributeMapping.login, username))
        entries == [i \in 1..Len(matching) |-> serverEntry(matching[i], atts)]
    IN  CASE outcome = "NoSuchObject" ->
               [Entries |-> <<>>, err |-> NewError("NoSuchObject")]
          [] outcome = "Other" -> [Entries |-> <<>>, err |-> NewError("Other")]
          [] outcome = "served" /\ Len(entries) > 1 ->
               [Entries |-> SubSeq(entries, 1, 1),
                err |-> NewError("SizeLimitExceeded")]
          [] OTHER -> [Entries |-> entries, err |-> NoError]

NilEntry == [DN |-> <<>>, Attributes |-> <<>>]

\* Faulty variant of searchUsername: no entry found is a plain error.
searchUsernamePlainError(b, dir, username, atts, outcome) ==
    LET sr == Search(b, dir, username, atts, outcome)
    IN  IF ~sr.err.nil THEN [entry |-> NilEntry, err |-> sr.err]
        ELSE IF Len(sr.Entries) = 0
        THEN [entry |-> NilEntry, err |-> Errorf("user not found")]
        ELSE IF Len(sr.Entries) = 1
        THEN [entry |-> sr.Entries[1], err |-> NoError]
        ELSE [entry |-> NilEntry, err |-> Errorf("user too many entries returned")]

\* Faulty variant of searchUsername: more than one entry counts as none.
searchUsernameManyIsNone(b, dir, username, atts, outcome) ==
    LET sr == Search(b, dir, username, atts, outcome)
    IN  IF ~sr.err.nil THEN [entry |-> NilEntry, err |-> sr.err]
        ELSE IF Len(sr.Entries) = 1
        THEN [entry |-> sr.Entries[1], err |-> NoError]
        ELSE [entry |-> NilEntry, err |-> NewError("NoSuchObject")]

\* searchUsername, lines 504-530
searchUsername(b, dir, username, atts, outcome) ==
    LET sr == Search(b, dir, username, atts, outcome)
    IN  IF ~sr.err.nil THEN [entry |-> NilEntry, err |-> sr.err]
        ELSE IF Len(sr.Entries) = 0
        THEN [entry |-> NilEntry, err |-> NewError("NoSuchObject")]
        ELSE IF Len(sr.Entries) = 1
        THEN [entry |-> sr.Entries[1], err |-> NoError]
        ELSE [entry |-> NilEntry, err |-> Errorf("user too many entries returned")]

\* How the server may answer a bind: by the password, or with an error.
BindOutcomes == {"served", "Other"}

\* l.Bind(dn, password): nil when the password is that of the entry.
Bind(dir, entryDN, password, outcome) ==
    IF outcome = "Other" THEN NewError("Other")
    ELSE IF \E i \in 1..Len(dir) :
                dir[i].DN = entryDN /\ dir[i].password = password
    THEN NoError
    ELSE NewError("InvalidCredentials")

\* entryIDFromEntry, lines 563-579
entryIDFromEntry(b, entry) ==
    IF b.entryIDMapping # <<>>
    THEN LET keys == {b.entryIDMapping[i] : i \in 1..Len(b.entryIDMapping)}
             held == {k \in keys : Len(GetAttributeValues(entry, k)) > 0}
         IN  Encode([k \in held |-> GetAttributeValues(entry, k)])
    ELSE entry.DN

LogonFailed(err) == [success |-> FALSE, subject |-> <<>>, err |-> err]
LogonNoMatch == [success |-> FALSE, subject |-> <<>>, err |-> NoError]

\* Logon, lines 324-372
Logon(b, dir, username, password, faults) ==
    LET loginAttributeName == b.attributeMapping.login
        found == searchUsername(b, dir, username,
                                attributes(b.attributeMapping), faults.search)
        bound == Bind(dir, found.entry.DN, password, faults.bind)
        entryID == entryIDFromEntry(b, found.entry)
    IN  IF loginAttributeName = <<>>
        THEN LogonFailed(Errorf("logon impossible as no login attribute is set"))
        ELSE IF ~connect(b, faults.connect).nil
        THEN LogonFailed(Errorf("logon connect error"))
        ELSE IF IsErrorWithCode(found.err, "NoSuchObject") THEN LogonNoMatch
        ELSE IF ~found.err.nil THEN LogonFailed(Errorf("logon search error"))
        ELSE IF ~EqualFold(GetAttributeValue(found.entry, loginAttributeName),
                           username)
        THEN LogonFailed(Errorf("logon search returned wrong user"))
        ELSE IF IsErrorWithCode(bound, "InvalidCredentials") THEN LogonNoMatch
        ELSE IF ~bound.nil THEN LogonFailed(Errorf("logon error"))
        ELSE IF entryID = <<>>
        THEN LogonFailed(Errorf("logon entry without entry ID"))
        ELSE [success |-> TRUE, subject |-> entryID, err |-> NoError]

----------------------------------------------------------------------------
(* The LDAP backend: users and lookups                                     *)

NilLdapUser ==
    [nil |-> TRUE, entryID |-> <<>>,
     data |-> [login |-> <<>>, email |-> <<>>, name |-> <<>>]]

\* newLdapUser, lines 103-137: of the attributes returned with a value, those
\* the mapping knows (names compared in lower case) give their first value;
\* a later attribute of the same name overwrites an earlier one.
newLdapUser(entryID, mapping, entry) ==
    LET known(n) == {i \in 1..Len(entry.Attributes) :
                        /\ Len(entry.Attributes[i].Values) > 0
                        /\ ToLower(entry.Attributes[i].Name) = ToLower(mapping[n])}
        last(n) == CHOOSE i \in known(n) : \A j \in known(n) : j <= i
    IN  [nil |-> FALSE, entryID |-> entryID,
         data |-> [n \in {"login", "email", "name"} |->
                     IF known(n) = {} THEN <<>>
                     ELSE entry.Attributes[last(n)].Values[1]]]

ResolveFailed(err) == [user |-> NilLdapUser, err |-> err]

\* ResolveUserByUsername, lines 376-402
ResolveUserByUsername(b, dir, username, faults) ==
    LET loginAttributeName == b.attributeMapping.login
        found == searchUsername(b, dir, username,
                                attributes(b.attributeMapping), faults.search)
    IN  IF loginAttributeName = <<>>
        THEN ResolveFailed(Errorf("resolve impossible as no login attribute is set"))
        ELSE IF ~connect(b, faults.connect).nil
        THEN ResolveFailed(Errorf("resolve connect error"))
        ELSE IF IsErrorWithCode(found.err, "NoSuchObject")
        THEN ResolveFailed(NoError)
        ELSE IF ~found.err.nil THEN ResolveFailed(Errorf("resolve search error"))
        ELSE IF ~EqualFold(GetAttributeValue(found.entry, loginAttributeName),
                           username)
        THEN ResolveFailed(Errorf("resolve search returned wrong user"))
        ELSE [user |-> newLdapUser(found.entry.DN, b.attributeMapping, found.entry),
              err |-> NoError]

----------------------------------------------------------------------------
(* The LDAP backend: from an entry ID back to the entry                    *)

HexDigits == {"0", "1", "2", "3", "4", "5", "6", "7", "8", "9",
              "A", "B", "C", "D", "E", "F", "a", "b", "c", "d", "e", "f"}

\* url.QueryUnescape's error: a "%" that no two hex digits follow.
badQueryEscape(s) ==
    \E i \in 1..Len(s) :
        /\ s[i] = "%"
        /\ \/ i + 2 > Len(s)
           \/ s[i + 1] \notin HexDigits
           \/ s[i + 2] \notin HexDigits

\* The character of a hex pair, for the pairs QueryEscape writes.
unhex(a, b) ==
    CASE a = "4" /\ b = "0" -> "@"
      [] a = "3" /\ b = "D" -> "="
      [] a = "2" /\ b = "6" -> "&"
      [] a = "2" /\ b = "B" -> "+"
      [] a = "2" /\ b = "C" -> ","
      [] a = "2" /\ b = "5" -> "%"
      [] a = "2" /\ b = "A" -> "*"
      [] a = "2" /\ b = "8" -> "("
      [] a = "2" /\ b = "9" -> ")"
      [] OTHER -> "?"

\* The positions of s that hold c, in ascending order.
Positions(s, c) ==
    LET at == {i \in 1..Len(s) : s[i] = c}
    IN  [k \in 1..Cardinality(at) |->
           CHOOSE i \in at : Cardinality({j \in at : j < i}) = k - 1]

\* url.QueryUnescape of a string without a bad escape: "%XX" is the
\* character of the pair, "+" a space, any other character itself.  A
\* character is read on its own unless it is one of the two hex digits
\* after a "%".
QueryUnescape(s) ==
    LET digit(i) == \/ i > 1 /\ s[i - 1] = "%"
                    \/ i > 2 /\ s[i - 2] = "%"
        starts == {i \in 1..Len(s) : ~digit(i)}
        start(k) == CHOOSE i \in starts : Cardinality({j \in starts : j < i}) = k - 1
    IN  [k \in 1..Cardinality(starts) |->
           IF s[start(k)] = "%" THEN unhex(s[start(k) + 1], s[start(k) + 2])
           ELSE IF s[start(k)] = "+" THEN " "
           ELSE s[start(k)]]

\* strings.Split: the parts of s between its separators c.
Split(s, c) ==
    LET seps == <<0>> \o Positions(s, c) \o <<Len(s) + 1>>
    IN  [k \in 1..(Len(seps) - 1) |-> SubSeq(s, seps[k] + 1, seps[k + 1] - 1)]

\* The key and the value of a field "key=value" of a query, as written.
rawKey(f) == CutBefore(f, "=")
rawValue(f) ==
    IF Index(f, "=") = 0 THEN <<>> ELSE SubSeq(f, Index(f, "=") + 1, Len(f))

\* A field url.ParseQuery cannot unescape.
badField(f) == badQueryEscape(rawKey(f)) \/ badQueryEscape(rawValue(f))

\* url.ParseQuery: the "&"-separated fields "key=value", unescaped, the
\* values of a key in the order they come; a field that does not unescape
\* is left out and makes the error.
ParseQuery(query) ==
    LET fields == SelectSeq(Split(query, "&"), LAMBDA f : f # <<>>)
        good == SelectSeq(fields, LAMBDA f : ~badField(f))
        keys == {QueryUnescape(rawKey(good[i])) : i \in 1..Len(good)}
    IN  [err |-> Len(good) # Len(fields),
         values |-> [k \in keys |->
                       LET of == SelectSeq(good,
                                   LAMBDA f : QueryUnescape(rawKey(f)) = k)
                       IN  [i \in 1..Len(of) |-> QueryUnescape(rawValue(of[i]))]]]

\* ldap.ParseDN's error on the IDs in use: text without a "type=value" pair.
ParseDNFails(s) == s # <<>> /\ Index(s, "=") = 0

\* The "(k=value)" terms of the filter, one for each value of each key, as
\* fmt.Sprintf writes them: key and value as they are.  The keys of the Go map
\* come in any order; the terms are all joined by "&", so the order does not
\* change what the filter matches, and they are taken in sorted order here.
RECURSIVE filterTerms(_, _, _)
filterTerms(filter, k, vs) ==
    IF vs = <<>> THEN filter
    ELSE filterTerms(filter \o <<"(">> \o k \o <<"=">> \o Head(vs) \o <<")">>,
                     k, Tail(vs))

RECURSIVE filterKeys(_, _, _)
filterKeys(filter, keys, values) ==
    IF keys = <<>> THEN filter
    ELSE filterKeys(filterTerms(filter, Head(keys), values[Head(keys)]),
                    Tail(keys), values)

\* baseAndGetFilterFromEntryID, lines 581-605.  (A local variable of the
\* code is a value drawn from the one-element set of what it is assigned.)
baseAndGetFilterFromEntryID(b, entryID) ==
    IF b.entryIDMapping # <<>>
    THEN CHOOSE result \in
           {IF ~parsed.err /\ filter # <<>>
            THEN [base |-> b.baseDN,
                  filter |-> <<"(", "&">> \o b.getFilter \o filter \o <<")">>]
            ELSE [base |-> <<>>, filter |-> <<>>]
            : parsed \in {ParseQuery(entryID)},
              filter \in {filterKeys(<<>>, SortStrings(DOMAIN ParseQuery(entryID).values),
                                     ParseQuery(entryID).values)}} : TRUE
    ELSE IF ParseDNFails(entryID) THEN [base |-> <<>>, filter |-> <<>>]
    ELSE [base |-> entryID, filter |-> b.getFilter]

FilterError == [err |-> TRUE, terms |-> <<>>]

\* The term "(attribute=value)" of a filter set; its value runs up to the
\* ")" that ends the term.
compileTerm(text) ==
    LET body == SubSeq(text, 2, Len(text) - 1)
        eq == Index(body, "=")
    IN  [attribute |-> SubSeq(body, 1, eq - 1),
         value |-> SubSeq(body, eq + 1, Len(body))]

\* Text that does not compile as a term: it does not open with "(", or it
\* has no attribute before an "=".
badTerm(text) ==
    \/ Len(text) < 2
    \/ text[1] # "("
    \/ Index(SubSeq(text, 2, Len(text) - 1), "=") < 2

\* The terms of an "&" set: each runs from a "(" up to the first ")" after
\* it, and the ")" after the last term ends the filter.  Text after that
\* ")" and a term that does not compile are errors.
compileFilterSet(rest) ==
    LET closes == <<0>> \o Positions(rest, ")")
        n == Len(closes) - 1
        text(k) == SubSeq(rest, closes[k] + 1, closes[k + 1])
    IN  IF \/ n = 0
           \/ closes[n + 1] # Len(rest)
           \/ closes[n + 1] # closes[n] + 1
           \/ \E k \in 1..(n - 1) : badTerm(text(k))
        THEN FilterError
        ELSE [err |-> FALSE, terms |-> [k \in 1..(n - 1) |-> compileTerm(text(k))]]

\* ldap.CompileFilter, which l.Search runs on the request's filter: an "&"
\* set, or a single term.
CompileFilter(filter) ==
    IF HasPrefix(filter, <<"(", "&">>)
    THEN compileFilterSet(SubSeq(filter, 3, Len(filter)))
    ELSE compileFilterSet(filter \o <<")">>)

\* The server's evaluation of a term on an entry: "*" asks for the presence
\* of the attribute, any other value for a value equal to it in any case.
serverTerm(entry, term) ==
    \E i \in 1..Len(entry.attrs) :
        /\ ToLower(entry.attrs[i].Name) = ToLower(term.attribute)
        /\ Len(entry.attrs[i].Values) > 0
        /\ \/ term.value = <<"*">>
           \/ \E j \in 1..Len(entry.attrs[i].Values) :
                 ToLower(entry.attrs[i].Values[j]) = ToLower(term.value)

\* What the server answers a compiled filter with.
searchCompiled(dir, base, baseObject, compiled, atts, outcome) ==
    LET inScope == IF baseObject
                   THEN SelectSeq(dir, LAMBDA e : ToLower(e.DN) = ToLower(base))
                   ELSE dir
        matching == SelectSeq(inScope, LAMBDA e :
                        \A k \in 1..Len(compiled.terms) :
                            serverTerm(e, compiled.terms[k]))
        entries == [i \in 1..Len(matching) |-> serverEntry(matching[i], atts)]
    IN  IF compiled.err
        THEN [Entries |-> <<>>, err |-> NewError("FilterCompile")]
        ELSE IF outcome = "NoSuchObject"
        THEN [Entries |-> <<>>, err |-> NewError("NoSuchObject")]
        ELSE IF outcome = "Other"
        THEN [Entries |-> <<>>, err |-> NewError("Other")]
        ELSE IF baseObject /\ inScope = <<>>
        THEN [Entries |-> <<>>, err |-> NewError("NoSuchObject")]
        ELSE IF outcome = "served" /\ Len(matching) > 1
        THEN [Entries |-> SubSeq(entries, 1, 1),
              err |-> NewError("SizeLimitExceeded")]
        ELSE [Entries |-> entries, err |-> NoError]

\* l.Search for an entry ID: the entries returned and the error.  A filter
\* that does not compile is not sent.  A search of the base object alone
\* answers "no such object" when no entry has that DN; every entry of the
\* directory is below the backend's base DN.
SearchEntry(b, dir, base, baseObject, filter, atts, outcome) ==
    CHOOSE result \in
        {searchCompiled(dir, base, baseObject, compiled, atts, outcome)
         : compiled \in {CompileFilter(filter)}} : TRUE

GetUserFailed(err) == [entry |-> NilEntry, err |-> err]

\* The entry of a search's answer, lines 554-560
getUserEntry(sr) ==
    IF ~sr.err.nil THEN GetUserFailed(sr.err)
    ELSE IF Len(sr.Entries) # 1
    THEN GetUserFailed(Errorf("user does not exist or too many entries returned"))
    ELSE [entry |-> sr.Entries[1], err |-> NoError]

\* getUser, lines 532-561
getUser(b, dir, entryID, atts, outcome) ==
    CHOOSE result \in
        {IF bf.base = <<>> \/ bf.filter = <<>> \/ entryID = <<>>
         THEN GetUserFailed(Errorf("get user invalid user ID"))
         ELSE CHOOSE entry \in
                {getUserEntry(sr)
                 : sr \in {SearchEntry(b, dir, bf.base, bf.base = entryID,
                                       bf.filter, atts, outcome)}} : TRUE
         : bf \in {baseAndGetFilterFromEntryID(b, entryID)}} : TRUE

\* The user of the entry found, lines 414-424
getUserResult(b, entryID, found) ==
    IF ~found.err.nil THEN ResolveFailed(Errorf("get user error"))
    ELSE CHOOSE result \in
           {IF ~EqualFold(newEntryID, entryID)
            THEN ResolveFailed(Errorf("get user returned wrong user"))
            ELSE [user |-> newLdapUser(newEntryID, b.attributeMapping, found.entry),
                  err |-> NoError]
            : newEntryID \in {entryIDFromEntry(b, found.entry)}} : TRUE

\* GetUser, lines 407-425
GetUser(b, dir, entryID, faults) ==
    IF ~connect(b, faults.connect).nil
    THEN ResolveFailed(Errorf("get user connect error"))
    ELSE CHOOSE result \in
           {getUserResult(b, entryID, found)
            : found \in {getUser(b, dir, entryID, attributes(b.attributeMapping),
                                 faults.search)}} : TRUE

----------------------------------------------------------------------------
(* Calls of the backend                                                    *)

LdapUsernames == {amy, bob, BOB, rob, zed}
LdapPasswords == {pwA, pwB}
Faults ==
    [connect : ConnectOutcomes, search : SearchOutcomes, bind : BindOutcomes]

\* The entry IDs GetUser is called with: those some backend derives from an
\* entry, the empty one, and two that are neither a query nor a DN.
EntryIDs ==
    {entryIDFromEntry(b, serverEntry([DN |-> DNOf(i), attrs |-> Catalogue[c].attrs],
                                     attributes(b.attributeMapping))) :
        b \in Backends, i \in 1..MaxEntries, c \in 1..Len(Catalogue)}
    \cup {<<>>, zed, <<"%">>}

\* The outcomes of connect and the search in a call that binds no user.
LookupFaults == {f \in Faults : f.bind = "served"}

InitLDAP ==
    /\ phase = "idle"
    /\ cookieJar = NoCookie
    /\ consentJar = NilConsent
    /\ req = NoRequest
    /\ resp = NoResponse
    /\ eff = NoEff
    /\ backend \in Backends
    /\ directory \in Directories
    /\ ldapReq = NoLdap
    /\ ldapRes = NoLdap
    /\ issued = NoLdap
    /\ calls = <<>>
    /\ limiter = NoLdap

\* One Logon call, from its arguments to its return.
LdapLogon ==
    /\ phase = "idle"
    /\ \E username \in LdapUsernames, password \in LdapPasswords,
          faults \in Faults :
         /\ ldapReq' = [op |-> "Logon", username |-> username,
                        password |-> password, faults |-> faults]
         /\ ldapRes' = Logon(backend, directory, username, password, faults)
    /\ phase' = "done"
    /\ UNCHANGED <<backend, directory, issued>>
    /\ UNCHANGED connVars
    /\ UNCHANGED httpVars

\* One ResolveUserByUsername call, from its argument to its return.
LdapResolve ==
    /\ phase = "idle"
    /\ \E username \in LdapUsernames, faults \in LookupFaults :
         /\ ldapReq' = [op |-> "Resolve", username |-> username,
                        faults |-> faults]
         /\ ldapRes' = ResolveUserByUsername(backend, directory, username, faults)
    /\ phase' = "done"
    /\ UNCHANGED <<backend, directory, issued>>
    /\ UNCHANGED connVars
    /\ UNCHANGED httpVars

\* One GetUser call, from its argument to its return.
LdapGetUser ==
    /\ phase = "idle"
    /\ \E entryID \in EntryIDs, faults \in LookupFaults :
         /\ ldapReq' = [op |-> "GetUser", entryID |-> entryID,
                        faults |-> faults]
         /\ ldapRes' = GetUser(backend, directory, entryID, faults)
    /\ phase' = "done"
    /\ UNCHANGED <<backend, directory, issued>>
    /\ UNCHANGED connVars
    /\ UNCHANGED httpVars

\* The caller takes the result; a subject handed out is remembered with the
\* name and password it was handed out for.
LdapReturn ==
    /\ phase = "done"
    /\ ldapReq.op # None
    /\ phase' = "idle"
    /\ issued' = IF ldapReq.op = "Logon" /\ ldapRes.success
                 THEN [op |-> "Logon", username |-> ldapReq.username,
                       password |-> ldapReq.password,
                       subject |-> ldapRes.subject]
                 ELSE issued
    /\ ldapReq' = NoLdap
    /\ ldapRes' = NoLdap
    /\ UNCHANGED <<backend, directory>>
    /\ UNCHANGED connVars
    /\ UNCHANGED httpVars

NextLDAP ==
    \/ LdapLogon
    \/ LdapResolve
    \/ LdapGetUser
    \/ LdapReturn

SpecLDAP == InitLDAP /\ [][NextLDAP]_vars

----------------------------------------------------------------------------
(* Properties of the LDAP backend                                          *)

LogonReturned == phase = "done" /\ ldapReq.op = "Logon"

\* The directory's entries (by position) that the search for a login name
\* matches: a value of the login attribute equals the name, in any case.
MatchingEntries(username) ==
    {i \in 1..Len(directory) :
        \E a \in 1..Len(directory[i].attrs) :
            /\ ToLower(directory[i].attrs[a].Name) = ToLower(uid)
            /\ \E v \in 1..Len(directory[i].attrs[a].Values) :
                 ToLower(directory[i].attrs[a].Values[v]) = ToLower(username)}

TheMatch(username) == CHOOSE i \in MatchingEntries(username) : TRUE

\* The server answers the search and the bind, and connect succeeds.
NoFault ==
    /\ ldapReq.faults.connect = "ok"
    /\ ldapReq.faults.search \in {"served", "unlimited"}
    /\ ldapReq.faults.bind = "served"

\* The first value the entry holds for the login attribute is the name asked
\* for, in any case.
FirstLoginValueIs(i, username) ==
    \E a \in 1..Len(directory[i].attrs) :
        /\ directory[i].attrs[a].Name = uid
        /\ ToLower(directory[i].attrs[a].Values[1]) = ToLower(username)

\* The search returns a value of the entry for one of the sub attributes:
\* the entry holds the attribute under that very name, and the attribute is
\* one of those the backend asks the server for.
SubAttributeReturned(i) ==
    \E k \in 1..Len(backend.entryIDMapping) :
        /\ \E a \in 1..Len(directory[i].attrs) :
             /\ directory[i].attrs[a].Name = backend.entryIDMapping[k]
             /\ Len(directory[i].attrs[a].Values) > 0
        /\ \E r \in 1..Len(attributes(backend.attributeMapping)) :
             ToLower(attributes(backend.attributeMapping)[r])
                 = ToLower(backend.entryIDMapping[k])

\* The pair is valid in the directory: exactly one entry matches the name
\* and its bind with the password succeeds.
ValidPair(username, password) ==
    /\ Cardinality(MatchingEntries(username)) = 1
    /\ directory[TheMatch(username)].password = password

\* C9: Logon tells a non-match from a failure to attempt.  A name that no
\* entry matches, and a bind answered "invalid credentials", return
\* success=false without an error; a failed connect, a search error other
\* than "no such object" and a bind error other than "invalid credentials"
\* return an error; success=true never comes with an error.
C9_NonMatchIsNoError ==
    LogonReturned =>
        LET f == ldapReq.faults
            m == MatchingEntries(ldapReq.username)
            reachesBind == /\ f.connect = "ok"
                           /\ f.search \in {"served", "unlimited"}
                           /\ Cardinality(m) = 1
                           /\ FirstLoginValueIs(TheMatch(ldapReq.username),
                                                ldapReq.username)
        IN  /\ ldapRes.success => ldapRes.err.nil
            /\ f.connect # "ok" => ~ldapRes.success /\ ~ldapRes.err.nil
            /\ (f.connect = "ok" /\ f.search = "Other")
                 => ~ldapRes.success /\ ~ldapRes.err.nil
            /\ (f.connect = "ok" /\ f.search \in {"served", "unlimited"} /\ m = {})
                 => ~ldapRes.success /\ ldapRes.err.nil
            /\ (reachesBind /\ f.bind = "Other")
                 => ~ldapRes.success /\ ~ldapRes.err.nil
            /\ (reachesBind /\ f.bind = "served"
                /\ directory[TheMatch(ldapReq.username)].password # ldapReq.password)
                 => ~ldapRes.success /\ ldapRes.err.nil

\* C9 witness: a name unknown to a directory of two entries was answered
\* success=false without an error.
C9_Witness ==
    /\ LogonReturned
    /\ NoFault
    /\ ldapReq.username = zed
    /\ Len(directory) = 2
    /\ ~ldapRes.success
    /\ ldapRes.err.nil

\* C10 as claimed: for every valid pair Logon returns success=true with a
\* non-empty subject, the same as an earlier Logon for the pair returned,
\* with and without sub attributes.
C10_Claimed ==
    (LogonReturned /\ NoFault /\ ValidPair(ldapReq.username, ldapReq.password))
        => /\ ldapRes.success
           /\ ldapRes.subject # <<>>
           /\ (/\ issued.op = "Logon"
               /\ issued.username = ldapReq.username
               /\ issued.password = ldapReq.password)
                => issued.subject = ldapRes.subject

\* C10 as amended: for every valid pair whose entry holds the name asked for
\* as the first value of its login attribute (in any case) and, when sub
\* attributes are configured, for whose entry the search returns a value of
\* one of them, Logon returns success=true with a non-empty subject, the
\* same as an earlier Logon for the pair returned: the entry's DN without
\* sub attributes, never the DN with them.  For every other valid pair Logon
\* returns an error.
C10_ValidPairSubject ==
    (LogonReturned /\ NoFault /\ ValidPair(ldapReq.username, ldapReq.password))
        => LET i == TheMatch(ldapReq.username)
               derivable == /\ FirstLoginValueIs(i, ldapReq.username)
                            /\ backend.entryIDMapping # <<>>
                                 => SubAttributeReturned(i)
           IN  /\ derivable
                    => /\ ldapRes.success
                       /\ ldapRes.err.nil
                       /\ ldapRes.subject # <<>>
                       /\ backend.entryIDMapping = <<>>
                            <=> ldapRes.subject = directory[i].DN
                       /\ (/\ issued.op = "Logon"
                           /\ issued.username = ldapReq.username
                           /\ issued.password = ldapReq.password)
                            => issued.subject = ldapRes.subject
               /\ ~derivable => ~ldapRes.success /\ ~ldapRes.err.nil

\* C10 witness: with the sub attributes mail and uid, a second Logon for an
\* entry of two login names and two mail addresses returned the subject of
\* the first, which names every value.
C10_Witness ==
    /\ LogonReturned
    /\ ldapRes.success
    /\ backend.entryIDMapping = <<mail, uid>>
    /\ ldapReq.username = rob
    /\ issued.op = "Logon"
    /\ issued.username = ldapReq.username
    /\ issued.password = ldapReq.password
    /\ issued.subject = ldapRes.subject
    /\ ldapRes.subject =
         <<"m", "a", "i", "l", "=", "r", "%", "4", "0", "x", "&",
           "m", "a", "i", "l", "=", "b", "%", "4", "0", "x", "&",
           "u", "i", "d", "=", "r", "o", "b", "&",
           "u", "i", "d", "=", "b", "o", "b">>

\* The answer of the search a GetUser call makes for its entry ID.
GetUserSearch ==
    LET bf == baseAndGetFilterFromEntryID(backend, ldapReq.entryID)
    IN  SearchEntry(backend, directory, bf.base, bf.base = ldapReq.entryID,
                    bf.filter, attributes(backend.attributeMapping),
                    ldapReq.faults.search)

\* C11: single-match discipline.  When more than one entry matches the
\* username, whether the server returns them all or cuts the answer at the
\* size limit, Logon and ResolveUserByUsername return an error: never
\* success=false without an error, never a user.  GetUser returns an error
\* and no user whenever its search returns no entry or more than one.
C11_SingleMatchRequired ==
    (phase = "done" /\ ldapReq.op # None /\ ldapReq.faults.connect = "ok")
        => /\ (/\ ldapReq.op \in {"Logon", "Resolve"}
               /\ ldapReq.faults.search \in {"served", "unlimited"}
               /\ Cardinality(MatchingEntries(ldapReq.username)) > 1)
                => /\ ~ldapRes.err.nil
                   /\ ldapReq.op = "Logon" => ~ldapRes.success
                   /\ ldapReq.op = "Resolve" => ldapRes.user.nil
           /\ (ldapReq.op = "GetUser" /\ Len(GetUserSearch.Entries) # 1)
                => ~ldapRes.err.nil /\ ldapRes.user.nil

\* C11 witness: a Logon for bob, whom two entries of the directory match
\* and both are returned, ended with an error.
C11_Witness ==
    /\ LogonReturned
    /\ NoFault
    /\ ldapReq.faults.search = "unlimited"
    /\ ldapReq.username = bob
    /\ Cardinality(MatchingEntries(bob)) = 2
    /\ ~ldapRes.success
    /\ ~ldapRes.err.nil

\* The entry ID the backend derives from the entry at a position of the
\* directory, as a search returns the entry.
EncodedEntry(i) ==
    entryIDFromEntry(backend, serverEntry(directory[i],
                                          attributes(backend.attributeMapping)))

\* Some value of the entry's attribute of that name equals the value, in any
\* case.
Holds(entry, name, value) ==
    \E a \in 1..Len(entry.attrs) :
        /\ ToLower(entry.attrs[a].Name) = ToLower(name)
        /\ \E v \in 1..Len(entry.attrs[a].Values) :
             ToLower(entry.attrs[a].Values[v]) = ToLower(value)

\* No other entry of the directory holds every value the entry at the
\* position has for the sub attributes.
OnlyHolder(i) ==
    \A j \in (1..Len(directory)) \ {i} :
        \E k \in 1..Len(backend.entryIDMapping) :
            \E a \in 1..Len(directory[i].attrs) :
                /\ directory[i].attrs[a].Name = backend.entryIDMapping[k]
                /\ \E v \in 1..Len(directory[i].attrs[a].Values) :
                     ~Holds(directory[j], backend.entryIDMapping[k],
                            directory[i].attrs[a].Values[v])

\* A GetUser call that was served without a fault, with sub attributes
\* configured, for the ID of the entry at a position of the directory.
RefetchOf(i) ==
    /\ phase = "done"
    /\ ldapReq.op = "GetUser"
    /\ ldapReq.faults.connect = "ok"
    /\ ldapReq.faults.search \in {"served", "unlimited"}
    /\ backend.entryIDMapping # <<>>
    /\ i \in 1..Len(directory)
    /\ EncodedEntry(i) # <<>>
    /\ EncodedEntry(i) = ldapReq.entryID

\* C12 as claimed, for entries that no other entry shares its sub attribute
\* values with: with sub attributes configured, the ID encoded from an entry
\* that has a value for one of them decodes to a filter with which GetUser
\* fetches the same entry again, under the same ID.
C12_RoundTripClaimed ==
    \A i \in 1..Len(directory) :
        (RefetchOf(i) /\ OnlyHolder(i))
            => /\ ldapRes.err.nil
               /\ ~ldapRes.user.nil
               /\ ldapRes.user.entryID = ldapReq.entryID
               /\ ldapRes.user =
                    newLdapUser(ldapReq.entryID, backend.attributeMapping,
                                serverEntry(directory[i],
                                            attributes(backend.attributeMapping)))

----------------------------------------------------------------------------
(* Non-matches, headers and the Hello response                             *)

\* A logon with a password that finds no user: the credentials are checked
\* (no X-Forwarded-User header) and are not those of an account, or the user
\* name is that of no account; the backend itself does not fail.
NonMatchLogon ==
    /\ Served("logon") /\ req.decodes
    /\ Len(req.Params) >= 2 /\ req.Params[2] # ""
    /\ ~eff.backendFailed
    /\ \/ req.forwardedUser = "" /\ ~BackendAccepts(req.Params[1], req.Params[2])
       \/ req.Params[1] \notin Accounts

\* A Hello evaluation, direct or nested in a logon, that requests prompt=none.
PromptNoneHello == HelloEvaluated /\ PromptNone \in EvaluatedHello.Prompts

\* C13 as claimed: every authentication non-match, a logon with wrong
\* credentials or for an unknown user and a Hello (direct or nested) with
\* prompt=none, is answered 204 and never with a 4xx or 5xx status.
C13_Claimed ==
    (NonMatchLogon \/ PromptNoneHello)
        => /\ resp.status = StatusNoContent
           /\ resp.status \notin {StatusBadRequest, StatusInternalServerError}

\* C13: a logon with wrong credentials or for an unknown user is answered
\* 204 with the request's state in the header, no body and no cookie; a Hello
\* with prompt=none, direct or nested in a logon, is answered with the 400
\* error page and no cookie.
C13_NonMatchAnswers ==
    /\ NonMatchLogon
         => /\ resp.status = StatusNoContent
            /\ resp.stateHeader = req.State
            /\ resp.body.kind = "none"
            /\ resp.setLogon.op = "keep"
    /\ PromptNoneHello
         => /\ resp.status = StatusBadRequest
            /\ resp.body.kind = "errorPage"
            /\ resp.setLogon.op = "keep"

\* C13 witness: alice logged on with her password and a nested Hello that
\* requests prompt=none; the request ended with 400 and no cookie.
C13_Witness ==
    /\ Served("logon")
    /\ req.Params = <<"alice", "secret", "1">>
    /\ req.forwardedUser = ""
    /\ PromptNoneHello
    /\ eff.backendLogon = 1
    /\ resp.status = StatusBadRequest
    /\ resp.setLogon.op = "keep"

\* The response of one of the four identifier endpoints is written.
EndpointServed ==
    phase = "done" /\ req.endpoint \in {"logon", "logoff", "consent", "hello"}

\* C14 as claimed: every response of the Logon, Logoff, Consent and Hello
\* endpoints carries the no-cache headers, on every path: 200, 204, the 400
\* of a malformed body and the 500 of a failure.
C14_Claimed == EndpointServed => resp.noCache

\* A Hello evaluation that requests neither prompt=none nor prompt=login.
PlainHello ==
    /\ HelloEvaluated
    /\ PromptNone \notin EvaluatedHello.Prompts
    /\ PromptLogin \notin EvaluatedHello.Prompts

\* The response names the user with this user name and display name.
HelloNames(username, name) ==
    resp.status = StatusOK
        => /\ resp.body.Hello.Username = username
           /\ resp.body.Hello.DisplayName = name

ClientFlows == {FlowOAuth, FlowConsent, FlowOIDC}

\* The Hello evaluated found an identity.
IdentityResolved == eff.helloSource \in {"caller", "cookie", "proxy"}

\* The response forces consent: the next step, the scopes requested and the
\* client's details are set.
ConsentForced(h) ==
    /\ h.Next = FlowConsent
    /\ h.RequestedScopes = EvaluatedHello.Scopes
    /\ h.ClientDetails = eff.client
\* None of the three is set.
ConsentNotForced(h) ==
    /\ h.Next = ""
    /\ h.RequestedScopes = {}
    /\ h.ClientDetails.nil

\* C16: a Hello (not prompt=none) that resolves no identity does not consult
\* the client registry and is answered 204.  With an identity and a flow of
\* oauth, consent or oidc the registry is consulted once: its failure is
\* answered with the 400 error page, and otherwise a response written sets
\* next = consent, the requested scopes and the client details if
\* prompt=consent was requested or the client is not trusted, and none of
\* the three for a trusted client without prompt=consent.
C16_ConsentForcing ==
    (HelloEvaluated /\ PromptNone \notin EvaluatedHello.Prompts) =>
        IF ~IdentityResolved
        THEN eff.clientLookups = 0 /\ resp.status = StatusNoContent
        ELSE IF EvaluatedHello.Flow \notin ClientFlows
        THEN eff.clientLookups = 0
        ELSE /\ eff.clientLookups = 1
             /\ IF eff.client.nil
                THEN /\ eff.helloResult = "error"
                     /\ resp.status = StatusBadRequest
                     /\ resp.body.kind = "errorPage"
                ELSE /\ resp.status = StatusOK \/ eff.sealFailed
                     /\ resp.status = StatusOK =>
                          IF \/ PromptConsent \in EvaluatedHello.Prompts
                             \/ ~eff.client.Trusted
                          THEN ConsentForced(resp.body.Hello)
                          ELSE ConsentNotForced(resp.body.Hello)

\* C16 witness: a Hello of the oidc flow without prompt=consent, for the
\* user of the logon cookie and a client that is not trusted, was answered
\* with next = consent.
C16_Witness ==
    /\ Served("hello")
    /\ req.r.Flow = FlowOIDC
    /\ req.r.Prompts = {}
    /\ eff.helloSource = "cookie"
    /\ ~eff.client.nil /\ ~eff.client.Trusted
    /\ resp.status = StatusOK
    /\ ConsentForced(resp.body.Hello)

\* A Hello response with success=true is written, by the Hello endpoint or
\* inside the response of a logon.
HelloSucceeded ==
    /\ HelloEvaluated
    /\ resp.status = StatusOK
    /\ ~resp.body.Hello.nil
    /\ resp.body.Hello.Success

\* C17 as claimed: every successful Hello response carries the authorization
\* endpoint as its continue URI, whatever the flow of the request.
C17_Claimed ==
    HelloSucceeded => resp.body.Hello.ContinueURI = AuthorizationEndpointURI

\* C17: a successful Hello response carries the authorization endpoint as
\* its continue URI, and the flow of the request, when the flow is oauth,
\* consent or oidc; for every other flow, the empty one included, the
\* continue URI and the flow of the response are empty.
C17_ContinueURI ==
    HelloSucceeded =>
        IF EvaluatedHello.Flow \in ClientFlows
        THEN /\ resp.body.Hello.ContinueURI = AuthorizationEndpointURI
             /\ resp.body.Hello.Flow = EvaluatedHello.Flow
        ELSE /\ resp.body.Hello.ContinueURI = ""
             /\ resp.body.Hello.Flow = ""

\* C17 witness: a successful Hello of the oauth flow, nested in a logon,
\* carries the authorization endpoint.
C17_Witness ==
    /\ Served("logon")
    /\ HelloSucceeded
    /\ req.Hello.Flow = FlowOAuth
    /\ resp.body.Hello.ContinueURI = AuthorizationEndpointURI

----------------------------------------------------------------------------
(* The branches of a logon                                                 *)

\* A logon with an empty password and mode flag "1" while the browser holds
\* a logon cookie that decodes.
PassiveProbe ==
    /\ Served("logon") /\ req.decodes
    /\ Len(req.Params) >= 3
    /\ req.Params[2] = "" /\ req.Params[3] = "1"
    /\ cookieJar.kind = "user"

\* C18: a logon with an empty password and mode flag "1" whose cookie holds
\* the user name given is decided by the cookie, whatever the
\* X-Forwarded-User header: neither the backend's Logon nor resolveUser is
\* called, the request goes on with the cookie's user and, without a nested
\* Hello, ends with 200 and a cookie for that user.  When the cookie holds
\* another user name it is ignored: the request goes on with the header, or
\* stops at the empty password with 204, and no error is answered because of
\* the cookie.
C18_PassiveReuseFirst ==
    PassiveProbe =>
        /\ eff.cookieDecodes >= 1
        /\ eff.backendLogon = 0
        /\ IF cookieJar.user.username = req.Params[1]
           THEN /\ eff.branch = "passive"
                /\ eff.resolveUser = 0
                /\ eff.updateUser = 1
                /\ (req.Hello.nil /\ ~eff.sealFailed)
                     => /\ resp.status = StatusOK
                        /\ resp.body.Success
                        /\ resp.setLogon.op = "set"
                        /\ resp.setLogon.user.username = req.Params[1]
                        /\ resp.setLogon.user.sub = cookieJar.user.sub
           ELSE /\ eff.branch = IF req.forwardedUser = "" THEN "empty-password"
                                ELSE IF req.forwardedUser = req.Params[1]
                                THEN "proxy" ELSE "proxy-mismatch"
                /\ req.forwardedUser = "" => resp.status = StatusNoContent
                /\ resp.status \in {StatusBadRequest, StatusInternalServerError}
                     => eff.backendFailed

\* C18 witness: alice was accepted from her cookie although the request
\* carried X-Forwarded-User: bob.
C18_Witness ==
    /\ PassiveProbe
    /\ req.Params[1] = "alice"
    /\ cookieJar.user.username = "alice"
    /\ req.forwardedUser = "bob"
    /\ eff.branch = "passive"
    /\ resp.status = StatusOK
    /\ resp.setLogon.op = "set"

\* A logon with the X-Forwarded-User header that the logon cookie does not
\* decide.
ProxyLogon ==
    /\ Served("logon") /\ req.decodes
    /\ req.forwardedUser # ""
    /\ eff.branch # "passive"

\* C19: a logon with the X-Forwarded-User header, not decided by the logon
\* cookie, never calls the backend's Logon, whatever the password.  When the
\* header equals the user name given, resolveUser is called once: its error
\* ends the request with 500 and no cookie, and no user (or a user without
\* subject) ends it with 204 and no cookie.  When the header differs, or no
\* user name is given, resolveUser is not called and the request ends with
\* 204 and no cookie.
C19_ProxyBranch ==
    ProxyLogon =>
        /\ eff.backendLogon = 0
        /\ IF Len(req.Params) >= 1 /\ req.forwardedUser = req.Params[1]
           THEN /\ eff.branch = "proxy"
                /\ eff.resolveUser = 1
                /\ eff.backendFailed
                     => /\ resp.status = StatusInternalServerError
                        /\ resp.setLogon.op = "keep"
                        /\ eff.updateUser = 0
                /\ (~eff.backendFailed /\ AccountSubject(req.Params[1]) = "")
                     => /\ resp.status = StatusNoContent
                        /\ resp.stateHeader = req.State
                        /\ resp.setLogon.op = "keep"
                /\ (~eff.backendFailed /\ AccountSubject(req.Params[1]) # "")
                     => /\ eff.updateUser = 1
                        /\ resp.setLogon.op = "set"
                             => resp.setLogon.user.username = req.forwardedUser
           ELSE /\ eff.branch = "proxy-mismatch"
                /\ eff.resolveUser = 0
                /\ resp.status = StatusNoContent
                /\ resp.stateHeader = req.State
                /\ resp.body.kind = "none"
                /\ resp.setLogon.op = "keep"

\* C19 witness: a logon for alice with a password and X-Forwarded-User: alice
\* ended with 500 because resolveUser failed; the password was not checked.
C19_Witness ==
    /\ ProxyLogon
    /\ req.Params = <<"alice", "wrong", "1">>
    /\ req.forwardedUser = "alice"
    /\ eff.resolveUser = 1 /\ eff.backendFailed
    /\ eff.backendLogon = 0
    /\ resp.status = StatusInternalServerError

\* A logon with a password and without the X-Forwarded-User header.
PasswordLogon ==
    /\ Served("logon") /\ req.decodes
    /\ Len(req.Params) >= 2 /\ req.Params[2] # ""
    /\ req.forwardedUser = ""

\* C20 as claimed: every logon with a non-empty password and no
\* X-Forwarded-User header calls the backend's Logon exactly once, whatever
\* the mode flag is and also when it is absent.
C20_Claimed == PasswordLogon => eff.backendLogon = 1

\* C20: a logon with a non-empty password and no X-Forwarded-User header
\* calls the backend's Logon exactly once when the mode flag is "1"; with
\* any other mode flag, or none, the backend is not called and the request
\* ends with 204 and no cookie.
C20_ModeOneDelegates ==
    PasswordLogon =>
        IF Len(req.Params) >= 3 /\ req.Params[3] = "1"
        THEN /\ eff.branch = "backend"
             /\ eff.backendLogon = 1
             /\ eff.resolveUser = 0
        ELSE /\ eff.branch = "none"
             /\ eff.backendLogon = 0
             /\ eff.resolveUser = 0
             /\ resp.status = StatusNoContent
             /\ resp.stateHeader = req.State
             /\ resp.setLogon.op = "keep"

\* C20 witness: the backend was asked once about alice and a wrong password
\* with mode flag "1" while the browser held her logon cookie; the request
\* ended with 204.
C20_Witness ==
    /\ PasswordLogon
    /\ req.Params = <<"alice", "wrong", "1">>
    /\ cookieJar.kind = "user"
    /\ eff.backendLogon = 1
    /\ ~eff.backendFailed
    /\ resp.status = StatusNoContent

----------------------------------------------------------------------------
(* The logon cookie                                                        *)

\* C21: a logon sets the logon cookie if and only if it ends with 200 and
\* success=true.  No cookie is set when no user is found or the subject is
\* empty (204), when the nested Hello fails (204) or is an error (400), or
\* when the backend fails (500); a failure to seal the cookie ends with 500
\* without success; and a failure of updateUser alone prevents neither the
\* cookie nor the 200.
C21_CookieIffSuccess ==
    Served("logon") =>
        /\ resp.setLogon.op \in {"set", "keep"}
        /\ resp.setLogon.op = "set"
             <=> (resp.status = StatusOK /\ resp.body.Success)
        /\ resp.setLogon.op = "set" => eff.sealLogon = 1 /\ ~eff.sealFailed
        /\ eff.sealFailed
             => /\ resp.status = StatusInternalServerError
                /\ ~resp.body.Success
        /\ eff.backendFailed => resp.status = StatusInternalServerError
        /\ eff.helloResult = "failure" => resp.status = StatusNoContent
        /\ eff.helloResult = "error" => resp.status = StatusBadRequest
        /\ (/\ eff.updateFailed
            /\ req.Hello.nil \/ eff.helloResult = "success"
            /\ ~eff.sealFailed)
             => /\ resp.status = StatusOK
                /\ resp.body.Success
                /\ resp.setLogon.op = "set"

\* C21 witness: updateUser failed for alice, and the logon still ended with
\* 200, success=true and her cookie, without a display name.
C21_Witness ==
    /\ Served("logon")
    /\ req.Params = <<"alice", "secret", "1">>
    /\ eff.updateUser = 1 /\ eff.updateFailed
    /\ resp.status = StatusOK
    /\ resp.body.Success
    /\ resp.setLogon.op = "set"
    /\ resp.setLogon.user.username = "alice"
    /\ resp.setLogon.user.name = ""

----------------------------------------------------------------------------
(* A backend call step by step: limiter, dial, handshake, bind, search     *)

MaxCalls == 2
LimiterBurst == 1
CallIDs == 1..MaxCalls
Ops == {"Logon", "Resolve", "GetUser"}

\* A backend over an ldaps:// URI with a bind DN, and one over an ldap://
\* URI without.
ConnBackends ==
    {NewLDAPIdentifierBackend(<<>>),
     [NewLDAPIdentifierBackend(<<>>) EXCEPT !.isTLS = FALSE, !.bindDN = <<>>]}

\* A call not yet made: the caller's context, the token and the connection
\* it holds, and whether it completed a step after its context was
\* cancelled.
NoCall ==
    [op |-> None, pc |-> "idle", ctx |-> "live", token |-> 0, dials |-> 0,
     conn |-> "none", result |-> None, waitFailed |-> FALSE, late |-> FALSE]

\* A step of the call ran to its end.
Step(call, name) == [call EXCEPT !.late = @ \/ call.ctx = "cancelled"]

\* The call returns to its caller.
Return(call, result) == [call EXCEPT !.pc = "returned", !.result = result]

\* c.Close() in connect, and the deferred l.Close() of the callers.
Close(call) == [call EXCEPT !.conn = "closed"]

\* Lines 491-499: after l.Start() the administrative bind follows when a
\* bind DN is set.
afterStart(b) == IF b.bindDN # <<>> THEN "adminBind" ELSE "search"

\* Faulty variant of connectWait: the error of the limiter is dropped.
connectWaitIgnoresError(call, granted) ==
    [Step(call, "wait") EXCEPT !.token = IF granted THEN @ + 1 ELSE @,
                               !.waitFailed = ~granted,
                               !.pc = "dial"]

\* Lines 467-470: b.limiter.Wait(ctx)
connectWait(call, granted) ==
    IF ~granted
    THEN [Return(call, "error") EXCEPT !.waitFailed = TRUE]
    ELSE [Step(call, "wait") EXCEPT !.token = @ + 1, !.pc = "dial"]

\* Lines 472-489: b.dialer.DialContext(ctx, "tcp", b.addr)
connectDial(b, call, ok) ==
    LET dialed == [call EXCEPT !.dials = @ + 1]
    IN  IF ~ok THEN Return(dialed, "error")
        ELSE [Step(dialed, "dial") EXCEPT
                !.conn = "open",
                !.pc = IF b.isTLS THEN "handshake" ELSE afterStart(b)]

\* Lines 478-485: the TLS handshake; the connection is closed when it fails.
connectHandshake(b, call, ok) ==
    IF ~ok THEN Return(Close(call), "error")
    ELSE [Step(call, "handshake") EXCEPT !.pc = afterStart(b)]

\* Lines 494-499: l.Bind(b.bindDN, b.bindPassword); its error is returned
\* as it is.
connectBind(call, ok) ==
    IF ~ok THEN Return(call, "error")
    ELSE [Step(call, "adminBind") EXCEPT !.pc = "search"]

\* How the one search of a call ends: an error, no entry, the entry, or an
\* entry that is not the one asked for.
CallSearchOutcomes == {"error", "none", "found", "wrong"}

\* Lines 336-348, 388-401, 414-424: the search of the call and what follows;
\* the deferred l.Close() runs at every return.
callSearch(call, outcome) ==
    CASE outcome = "error" -> Return(Close(call), "error")
      [] outcome = "wrong" -> Return(Close(Step(call, "search")), "error")
      [] outcome = "none" ->
           Return(Close(Step(call, "search")),
                  IF call.op = "GetUser" THEN "error" ELSE "nomatch")
      [] OTHER ->
           IF call.op = "Logon"
           THEN [Step(call, "search") EXCEPT !.pc = "userBind"]
           ELSE Return(Close(Step(call, "search")), "ok")

\* How the bind as the user ends.
CallBindOutcomes == {"ok", "invalid", "error"}

\* Lines 350-371: l.Bind(entry.DN, password) and the return of Logon.
callBind(call, outcome) ==
    CASE outcome = "error" -> Return(Close(call), "error")
      [] outcome = "invalid" -> Return(Close(Step(call, "userBind")), "nomatch")
      [] OTHER -> Return(Close(Step(call, "userBind")), "ok")

\* rate.NewLimiter(100, 200), scaled down: the tokens in the bucket and the
\* number handed out.
NewLimiter == [tokens |-> LimiterBurst, granted |-> 0]

InitConn ==
    /\ phase = "idle"
    /\ cookieJar = NoCookie
    /\ consentJar = NilConsent
    /\ req = NoRequest
    /\ resp = NoResponse
    /\ eff = NoEff
    /\ backend \in ConnBackends
    /\ directory = <<>>
    /\ ldapReq = NoLdap
    /\ ldapRes = NoLdap
    /\ issued = NoLdap
    /\ calls = [c \in CallIDs |-> NoCall]
    /\ limiter = NewLimiter

connFrame == <<phase, backend, directory, ldapReq, ldapRes, issued>>

\* Lines 324-334, 376-386, 407-411: a caller calls Logon,
\* ResolveUserByUsername or GetUser; the first two need a login attribute.
CallStart ==
    /\ phase = "idle"
    /\ \E c \in CallIDs, op \in Ops :
         /\ calls[c].pc = "idle"
         /\ calls' = [calls EXCEPT ![c] =
                IF op # "GetUser" /\ backend.attributeMapping.login = <<>>
                THEN Return([@ EXCEPT !.op = op], "error")
                ELSE [@ EXCEPT !.op = op, !.pc = "wait"]]
    /\ UNCHANGED <<limiter, connFrame, httpVars>>

\* Line 467: the wait for a token ends: with an error when the context is
\* done or the token would come after the deadline, with a token otherwise.
LimiterWait ==
    /\ phase = "idle"
    /\ \E c \in CallIDs :
         /\ calls[c].pc = "wait"
         /\ LET granted == calls[c].ctx = "live" /\ limiter.tokens > 0
            IN  /\ calls' = [calls EXCEPT ![c] = connectWait(@, granted)]
                /\ limiter' = IF granted
                              THEN [tokens |-> limiter.tokens - 1,
                                    granted |-> limiter.granted + 1]
                              ELSE limiter
    /\ UNCHANGED <<connFrame, httpVars>>

\* Time passes and the bucket gains a token, up to its burst.
LimiterRefill ==
    /\ phase = "idle"
    /\ limiter.tokens < LimiterBurst
    /\ limiter' = [limiter EXCEPT !.tokens = @ + 1]
    /\ UNCHANGED <<calls, connFrame, httpVars>>

\* Line 472: the dial ends; it fails when the context is done.
Dial ==
    /\ phase = "idle"
    /\ \E c \in CallIDs, ok \in BOOLEAN :
         /\ calls[c].pc = "dial"
         /\ calls[c].ctx = "cancelled" => ~ok
         /\ calls' = [calls EXCEPT ![c] = connectDial(backend, @, ok)]
    /\ UNCHANGED <<limiter, connFrame, httpVars>>

\* Line 480: sc.Handshake() ends.
Handshake ==
    /\ phase = "idle"
    /\ \E c \in CallIDs, ok \in BOOLEAN :
         /\ calls[c].pc = "handshake"
         /\ calls' = [calls EXCEPT ![c] = connectHandshake(backend, @, ok)]
    /\ UNCHANGED <<limiter, connFrame, httpVars>>

\* Line 495: the administrative bind ends.
AdminBind ==
    /\ phase = "idle"
    /\ \E c \in CallIDs, ok \in BOOLEAN :
         /\ calls[c].pc = "adminBind"
         /\ calls' = [calls EXCEPT ![c] = connectBind(@, ok)]
    /\ UNCHANGED <<limiter, connFrame, httpVars>>

\* Lines 516, 554: l.Search ends.
CallSearch ==
    /\ phase = "idle"
    /\ \E c \in CallIDs, outcome \in CallSearchOutcomes :
         /\ calls[c].pc = "search"
         /\ calls' = [calls EXCEPT ![c] = callSearch(@, outcome)]
    /\ UNCHANGED <<limiter, connFrame, httpVars>>

\* Line 350: the bind as the user ends.
CallBind ==
    /\ phase = "idle"
    /\ \E c \in CallIDs, outcome \in CallBindOutcomes :
         /\ calls[c].pc = "userBind"
         /\ calls' = [calls EXCEPT ![c] = callBind(@, outcome)]
    /\ UNCHANGED <<limiter, connFrame, httpVars>>

\* The caller cancels the context of a call that has not returned.
Cancel ==
    /\ phase = "idle"
    /\ \E c \in CallIDs :
         /\ calls[c].pc \notin {"idle", "returned"}
         /\ calls[c].ctx = "live"
         /\ calls' = [calls EXCEPT ![c].ctx = "cancelled"]
    /\ UNCHANGED <<limiter, connFrame, httpVars>>

NextConn ==
    \/ CallStart
    \/ LimiterWait
    \/ LimiterRefill
    \/ Dial
    \/ Handshake
    \/ AdminBind
    \/ CallSearch
    \/ CallBind
    \/ Cancel

SpecConn == InitConn /\ [][NextConn]_vars

\* A call that returned.
Returned(c) == c \in DOMAIN calls /\ calls[c].pc = "returned"

\* C22 as claimed: when a Logon, ResolveUserByUsername or GetUser call has
\* returned, the connection it dialed is closed, on every path.
C22_Claimed == \A c \in CallIDs : Returned(c) => calls[c].conn # "open"

\* The context of a call that returned was cancelled before the return.
CancelledCall(c) == Returned(c) /\ calls[c].ctx = "cancelled"

\* C23 as claimed: a call whose context is cancelled while it waits for a
\* token, dials, performs the TLS handshake, binds, searches or binds as the
\* user returns an error and completes none of the steps that remained.
C23_Claimed ==
    \A c \in CallIDs :
        CancelledCall(c) => calls[c].result = "error" /\ ~calls[c].late

\* The dials started by the calls in c.
RECURSIVE DialsOf(_)
DialsOf(cs) ==
    IF cs = {} THEN 0
    ELSE LET c == CHOOSE x \in cs : TRUE
         IN  calls[c].dials + DialsOf(cs \ {c})

\* C24: under every interleaving of Logon, ResolveUserByUsername and GetUser
\* calls on one backend, a call dials only after the limiter granted it a
\* token and dials at most once, so the dials started never exceed the
\* tokens granted; a call whose wait for a token failed has returned an
\* error without dialing.
C24_DialNeedsToken ==
    DOMAIN calls = CallIDs =>
        /\ \A c \in CallIDs :
             /\ calls[c].dials <= calls[c].token
             /\ calls[c].dials <= 1
             /\ calls[c].pc \in {"dial", "handshake", "adminBind", "search",
                                 "userBind"} => calls[c].token = 1
             /\ calls[c].conn # "none" => calls[c].dials = 1
             /\ calls[c].waitFailed
                  => /\ calls[c].pc = "returned"
                     /\ calls[c].result = "error"
                     /\ calls[c].dials = 0
                     /\ calls[c].conn = "none"
        /\ DialsOf(CallIDs) <= limiter.granted

\* C24 witness: of two concurrent calls one found the bucket empty and
\* returned an error without dialing while the other, holding the token,
\* had dialed and was searching.
C24_Witness ==
    /\ DOMAIN calls = CallIDs
    /\ \E c, d \in CallIDs :
         /\ c # d
         /\ calls[c].waitFailed /\ calls[c].ctx = "live"
         /\ calls[c].pc = "returned" /\ calls[c].dials = 0
         /\ calls[d].pc = "search" /\ calls[d].dials = 1
    /\ limiter.granted = 1

----------------------------------------------------------------------------
(* One subject for one entry                                               *)

\* A ResolveUserByUsername call returned a user.
ResolvedUser == phase = "done" /\ ldapReq.op = "Resolve" /\ ~ldapRes.user.nil

\* C25 as claimed: the subject of the user ResolveUserByUsername returns is
\* the subject Logon returns for the same entry, the encoded form and never
\* the DN when sub attributes are configured.
C25_Claimed ==
    ResolvedUser =>
        LET i == TheMatch(ldapReq.username)
        IN  /\ EncodedEntry(i) # <<>>
                 => ldapRes.user.entryID = EncodedEntry(i)
            /\ backend.entryIDMapping # <<>>
                 => ldapRes.user.entryID # directory[i].DN

----------------------------------------------------------------------------
(* prompt=login in the Hello of a logon                                    *)

\* A logon found a user with a subject and evaluated its nested Hello, which
\* requests prompt=login and not prompt=none.
LogonWithPromptLogin ==
    /\ Served("logon") /\ req.decodes
    /\ eff.updateUser = 1
    /\ ~req.Hello.nil /\ eff.helloRun
    /\ PromptLogin \in req.Hello.Prompts
    /\ PromptNone \notin req.Hello.Prompts

\* C26 as claimed: the nested Hello of a logon that requests prompt=login
\* uses the user the logon just found and succeeds, so that the logon ends
\* with 200, success=true and a logon cookie (unless the client lookup or
\* the sealing of the cookie fails), not with 204.
C26_Claimed ==
    LogonWithPromptLogin =>
        /\ eff.helloSource = "caller"
        /\ eff.helloResult # "failure"
        /\ resp.status # StatusNoContent
        /\ (eff.helloResult = "success" /\ ~eff.sealFailed)
             => /\ resp.status = StatusOK
                /\ resp.body.Success
                /\ resp.setLogon.op = "set"

====
